---- MODULE Spec2Model ----
(***************************************************************************)
(* Model of the MCP agent of aptivators/mcp-demo (src/agent/agent.py):     *)
(* the streaming client (MCPStreamingClient), its health classification,   *)
(* and the orchestration of MCPAgent (health_check_all, gathering).        *)
(*                                                                         *)
(* Five specifications share the variables:                                *)
(*   SpecHealth   the health classification of health_check, as a pure     *)
(*                function applied to every response of a bounded set;     *)
(*   Spec         one MCPStreamingClient and every sequence of operations  *)
(*                on it, one step per network call or retry delay;         *)
(*   SpecAgent    MCPAgent over a registry of three servers;               *)
(*   SpecRelevant the relevance tests of MCPAgent and the except clause of *)
(*                its fetches, as pure functions;                          *)
(*   SpecSse      _parse_sse_response applied to a bounded set of bodies.  *)
(***************************************************************************)
EXTENDS Integers, Sequences, FiniteSets, TLC

VARIABLES hc, client, servers, agent, probes

vars == <<hc, client, servers, agent, probes>>

(***************************************************************************)
(* JSON values.  A value is a record tagged by its Python type; a string   *)
(* is a sequence of one-character strings, a list a sequence of values, a  *)
(* dict a function from its keys to values.                                *)
(***************************************************************************)
JNull == [t |-> "null"]
JBool(b) == [t |-> "bool", b |-> b]
JNum(n) == [t |-> "num", n |-> n]
JStr(s) == [t |-> "str", s |-> s]
JList(l) == [t |-> "list", l |-> l]
JDict(d) == [t |-> "dict", d |-> d]

\* Python truth value of a JSON value (bool(x)).
Truthy(j) ==
  CASE j.t = "null" -> FALSE
    [] j.t = "bool" -> j.b
    [] j.t = "num" -> j.n # 0
    [] j.t = "str" -> Len(j.s) > 0
    [] j.t = "list" -> Len(j.l) > 0
    [] j.t = "dict" -> DOMAIN j.d # {}

\* dict.get(key, default) on a dict value.
DictGet(j, key, default) == IF key \in DOMAIN j.d THEN j.d[key] ELSE default

\* Characters str.strip() removes.
Whitespace == {" ", "\t", "\n", "\r"}

RECURSIVE LStrip(_)
LStrip(s) == IF s # <<>> /\ Head(s) \in Whitespace THEN LStrip(Tail(s)) ELSE s

RECURSIVE RStrip(_)
RStrip(s) ==
  IF s # <<>> /\ s[Len(s)] \in Whitespace THEN RStrip(SubSeq(s, 1, Len(s) - 1)) ELSE s

\* str.strip()
Strip(s) == RStrip(LStrip(s))

STR_OK == <<"o", "k">>
STR_HEALTHY == <<"h", "e", "a", "l", "t", "h", "y">>

\* HealthOfDict without its status branch: a dict without a content list is
\* judged by its error fields alone.
HealthOfDictStatusIgnored(tool_result) ==
  IF "content" \in DOMAIN tool_result.d /\ tool_result.d["content"].t = "list"
  THEN Len(tool_result.d["content"].l) > 0
         /\ ~Truthy(DictGet(tool_result, "isError", JBool(FALSE)))
  ELSE ~Truthy(DictGet(tool_result, "error", JNull))
         /\ ~Truthy(DictGet(tool_result, "isError", JBool(FALSE)))

\* HealthOfDict with the content branch taken only by a non-empty list
\* without error, the other content lists falling through to status.
HealthOfDictFallThrough(tool_result) ==
  IF /\ "content" \in DOMAIN tool_result.d /\ tool_result.d["content"].t = "list"
     /\ Len(tool_result.d["content"].l) > 0
     /\ ~Truthy(DictGet(tool_result, "isError", JBool(FALSE)))
  THEN TRUE
  ELSE IF "status" \in DOMAIN tool_result.d
  THEN tool_result.d["status"] = JStr(STR_OK)
         \/ tool_result.d["status"] = JStr(STR_HEALTHY)
  ELSE ~Truthy(DictGet(tool_result, "error", JNull))
         /\ ~Truthy(DictGet(tool_result, "isError", JBool(FALSE)))

\* health_check, the branch on a dict result (agent.py 259-279).
HealthOfDict(tool_result) ==
  IF "content" \in DOMAIN tool_result.d /\ tool_result.d["content"].t = "list"
  THEN LET has_content == Len(tool_result.d["content"].l) > 0
           is_not_error == ~Truthy(DictGet(tool_result, "isError", JBool(FALSE)))
       IN  has_content /\ is_not_error
  ELSE IF "status" \in DOMAIN tool_result.d
  THEN tool_result.d["status"] = JStr(STR_OK)
         \/ tool_result.d["status"] = JStr(STR_HEALTHY)
  ELSE ~Truthy(DictGet(tool_result, "error", JNull))
         /\ ~Truthy(DictGet(tool_result, "isError", JBool(FALSE)))

\* HealthOfResult without strip() on a string result.
HealthOfResultUnstripped(tool_result) ==
  CASE tool_result.t = "dict" -> HealthOfDict(tool_result)
    [] tool_result.t = "str" -> Len(tool_result.s) > 0
    [] tool_result.t = "bool" -> tool_result.b
    [] OTHER -> TRUE

\* health_check, the classification of a tool result (agent.py 259-288).
HealthOfResult(tool_result) ==
  CASE tool_result.t = "dict" -> HealthOfDict(tool_result)
    [] tool_result.t = "str" -> Len(Strip(tool_result.s)) > 0
    [] tool_result.t = "bool" -> tool_result.b
    [] OTHER -> TRUE

\* HealthOfResponse failing open on a response without result.
HealthOfResponseFailOpen(result) ==
  IF "result" \in DOMAIN result.d THEN HealthOfResult(result.d["result"]) ELSE TRUE

\* health_check, from the decoded response to the verdict (agent.py 254-290).
\* The response is the decoded JSON-RPC object, a dict.
HealthOfResponse(result) ==
  IF "result" \in DOMAIN result.d THEN HealthOfResult(result.d["result"]) ELSE FALSE


(***************************************************************************)
(* MCPStreamingClient.  A client is a record: the fields of the object     *)
(* (config, session, session_id, request_id, initialized), the position of *)
(* the operation in progress (pc, op, attempt), and history: the log of    *)
(* the messages it sent and of the retry delays, the index of the log      *)
(* where the current operation began, the outcome of the latest request    *)
(* and the result of the latest operation.                                 *)
(***************************************************************************)
None == "None"

\* retry_attempts: int = 3
DefaultRetryAttempts == 3

\* Largest request id of a session in Spec.
MaxRequestId == 3

\* retry_attempts of the modelled configurations: -1 .. MaxRetry.
MaxRetry == 3

Err(exc, msg, req) == [exc |-> exc, msg |-> msg, req |-> req, cause |-> None]
Return(v) == [kind |-> "return", value |-> v]
Raise(e) == [kind |-> "raise", err |-> e]
NoRet == [kind |-> "none"]
Self == [t |-> "self"]

\* A client that begins with the request counter and the token of a
\* session that was used before, with server A.
NewClientOfUsedSession(cfg) ==
  [config |-> cfg, session |-> "none", session_id |-> "A", request_id |-> 1,
   initialized |-> FALSE, pc |-> "new", op |-> "none", attempt |-> 0,
   log |-> <<>>, op_start |-> 0, last |-> NoRet, ret |-> NoRet]

\* MCPStreamingClient.__init__
NewClient(cfg) ==
  [config |-> cfg, session |-> "none", session_id |-> None, request_id |-> 0,
   initialized |-> FALSE, pc |-> "new", op |-> "none", attempt |-> 0,
   log |-> <<>>, op_start |-> 0, last |-> NoRet, ret |-> NoRet]

\* _get_next_request_id
get_next_request_id(c) == [c EXCEPT !.request_id = @ + 1]

\* Truth value of a header value or of session_id (None and "" are falsy).
TokenTruthy(h) == h # None /\ h # ""

\* _get_headers: the Mcp-Session-Id header sent, None when it is left out.
get_headers(c) == IF TokenTruthy(c.session_id) THEN c.session_id ELSE None

\* _parse_sse_response, on the decoder's outcome for the body: the decoded
\* JSON-RPC object, or the exception the decoder raises.
parse_sse_response(sse, rid) ==
  IF sse.ok THEN Return(sse.json) ELSE Raise(Err(sse.exc, sse.msg, rid))

\* agent.py 134-135 taking every header that is present, an empty one too.
capture_session_id_if_present(c, header) ==
  IF header # None THEN [c EXCEPT !.session_id = header] ELSE c

\* agent.py 134-135: a response header Mcp-Session-Id with a non-empty value
\* becomes the session id.
capture_session_id(c, header) ==
  IF TokenTruthy(header) THEN [c EXCEPT !.session_id = header] ELSE c

\* _send_mcp_request.  o is what the transport does with the POST: it raises
\* aiohttp.ClientError or asyncio.TimeoutError (o.header is the session
\* header received before the failure, None if none was), or it delivers a
\* response.
send_mcp_request(c, method, o) ==
  LET c1 == get_next_request_id(c)
      rid == c1.request_id
      msg == [kind |-> "request", method |-> method, id |-> rid,
              hdr |-> get_headers(c1), init |-> c1.initialized]
      c2 == [c1 EXCEPT !.log = Append(@, msg)]
      c3 == capture_session_id(c2, o.header)
      res == CASE o.kind = "ClientError" ->
                    Raise(Err("RuntimeError", "MCP request failed", rid))
               [] o.kind = "TimeoutError" ->
                    Raise(Err("TimeoutError", "timeout", rid))
               [] o.kind = "response" ->
                    IF o.status # 200
                    THEN Raise(Err("RuntimeError", "Server returned status", rid))
                    ELSE parse_sse_response(o.sse, rid)
  IN  [c |-> [c3 EXCEPT !.last = res], res |-> res]

\* _send_mcp_notification built like a request: it takes the next id.
send_mcp_notification_with_id(c, method, o) ==
  LET c0 == get_next_request_id(c)
      msg == [kind |-> "notification", method |-> method, hdr |-> get_headers(c0)]
      c1 == [c0 EXCEPT !.log = Append(@, msg)]
      res == IF o.kind = "TimeoutError"
             THEN Raise(Err("TimeoutError", "timeout", c0.request_id))
             ELSE Return(JNull)
  IN  [c |-> c1, res |-> res]

\* _send_mcp_notification: no id, no header capture; ClientError and a
\* non-200 status are logged only.
send_mcp_notification(c, method, o) ==
  LET msg == [kind |-> "notification", method |-> method, hdr |-> get_headers(c)]
      c1 == [c EXCEPT !.log = Append(@, msg)]
      res == IF o.kind = "TimeoutError"
             THEN Raise(Err("TimeoutError", "timeout", c.request_id))
             ELSE Return(JNull)
  IN  [c |-> c1, res |-> res]

\* The operation in progress ends with result r.
Finish(c, r) == [c EXCEPT !.pc = "idle", !.ret = r]

RetryOps == {"call_tool", "get_resource"}
ListOps == {"list_tools", "list_resources"}
Ops == {"health_check"} \cup RetryOps \cup ListOps

\* The method of the request an operation sends.
MethodOf(op) ==
  CASE op = "health_check" -> "tools/call"
    [] op = "call_tool" -> "tools/call"
    [] op = "get_resource" -> "resources/read"
    [] op = "list_tools" -> "tools/list"
    [] op = "list_resources" -> "resources/list"

\* The exceptions the retry loop of an operation catches
\* (call_tool: agent.py 317, get_resource: agent.py 344).
RetryCatches(op) ==
  IF op = "call_tool" THEN {"RuntimeError", "ValueError"}
  ELSE {"ClientError", "RuntimeError", "ValueError"}

\* What an operation does once the session is initialized, up to its first
\* request: __aenter__ returns self; the retry loop is entered (range(n) is
\* empty for n <= 0 and the function then falls off its end, returning None).
AfterInitialized(c) ==
  CASE c.op = "aenter" -> Finish(c, Return(Self))
    [] c.op \in RetryOps ->
         IF c.config.retry_attempts <= 0
         THEN Finish(c, Return(JNull))
         ELSE [c EXCEPT !.pc = "request", !.attempt = 0]
    [] OTHER -> [c EXCEPT !.pc = "request"]

\* _initialize_mcp_session without its test of initialized: the handshake
\* is made on every call.
initialize_mcp_session_unguarded(c) == [c EXCEPT !.pc = "initialize"]

\* _initialize_mcp_session, up to its first network call: it returns at once
\* when initialized is set (agent.py 195-196).
initialize_mcp_session(c) ==
  IF c.initialized THEN AfterInitialized(c) ELSE [c EXCEPT !.pc = "initialize"]

\* InitializeRaised that marks the session initialized although its
\* handshake failed.
InitializeRaisedMarksInitialized(c, e) ==
  Finish([c EXCEPT !.initialized = TRUE], Raise(e))

\* An exception e leaves _initialize_mcp_session (agent.py 219-221 wraps
\* RuntimeError and ValueError) and reaches the operation that called it;
\* health_check catches ClientError and RuntimeError (agent.py 292-294).
InitializeRaised(c, e) ==
  LET w == IF e.exc \in {"RuntimeError", "ValueError"}
           THEN [exc |-> "RuntimeError", msg |-> "MCP session initialization failed",
                 req |-> e.req, cause |-> e.msg]
           ELSE e
  IN  IF c.op = "health_check" /\ w.exc \in {"ClientError", "RuntimeError"}
      THEN Finish(c, Return(JBool(FALSE)))
      ELSE Finish(c, Raise(w))

\* initialize_request going on to the notification whatever the request
\* ended with.
initialize_request_then_notify(c, o) ==
  [send_mcp_request(c, "initialize", o).c EXCEPT !.pc = "notify"]

\* _initialize_mcp_session, step 1: the initialize request.
initialize_request(c, o) ==
  LET s == send_mcp_request(c, "initialize", o)
  IN  IF s.res.kind = "return"
      THEN [s.c EXCEPT !.pc = "notify"]
      ELSE InitializeRaised(s.c, s.res.err)

\* _initialize_mcp_session, step 2: the initialized notification, then
\* initialized = True.
initialize_notify(c, o) ==
  LET s == send_mcp_notification(c, "notifications/initialized", o)
  IN  IF s.res.kind = "return"
      THEN AfterInitialized([s.c EXCEPT !.initialized = TRUE])
      ELSE InitializeRaised(s.c, s.res.err)

\* [tool["name"] for tool in tools]
Names(l, field) == [i \in 1..Len(l) |-> l[i].d[field]]

\* list_tools / list_resources after the response (agent.py 359-361, 370-372).
\* "key in x" raises TypeError when x is None, a bool or a number.
ListResult(c, json, key, field) ==
  IF "result" \notin DOMAIN json.d THEN Return(JList(<<>>))
  ELSE LET r == json.d["result"]
       IN  CASE r.t = "dict" ->
                  IF key \in DOMAIN r.d
                  THEN Return(JList(Names(r.d[key].l, field)))
                  ELSE Return(JList(<<>>))
             [] r.t \in {"str", "list"} -> Return(JList(<<>>))
             [] OTHER -> Raise(Err("TypeError", "not iterable", c.request_id))

\* The body of one pass of the retry loop of call_tool / get_resource.
retry_attempt(c, res) ==
  LET e == IF res.kind = "return"
           THEN Err("RuntimeError", "No result in response", c.request_id)
           ELSE res.err
  IN  IF res.kind = "return" /\ "result" \in DOMAIN res.value.d
      THEN Finish(c, Return(res.value.d["result"]))
      ELSE IF e.exc \in RetryCatches(c.op)
      THEN IF c.attempt = c.config.retry_attempts - 1
           THEN Finish(c, Raise(e))
           ELSE [c EXCEPT !.pc = "sleep"]
      ELSE Finish(c, Raise(e))

\* health_result that tries again, after the delay, when the request failed
\* and attempts are left.
health_result_retrying(c, res) ==
  IF res.kind = "return"
  THEN Finish(c, Return(JBool(HealthOfResponse(res.value))))
  ELSE IF c.attempt < c.config.retry_attempts - 1
  THEN [c EXCEPT !.pc = "sleep"]
  ELSE Finish(c, Return(JBool(FALSE)))

\* health_check after its request (agent.py 254-294).
health_result(c, res) ==
  IF res.kind = "return"
  THEN Finish(c, Return(JBool(HealthOfResponse(res.value))))
  ELSE IF res.err.exc \in {"ClientError", "RuntimeError"}
  THEN Finish(c, Return(JBool(FALSE)))
  ELSE Finish(c, Raise(res.err))

\* The request of the operation in progress and what the operation does
\* with its outcome.
operation_request(c, o) ==
  LET s == send_mcp_request(c, MethodOf(c.op), o)
  IN  CASE c.op = "health_check" -> health_result(s.c, s.res)
        [] c.op \in RetryOps -> retry_attempt(s.c, s.res)
        [] c.op = "list_tools" ->
             IF s.res.kind = "return"
             THEN Finish(s.c, ListResult(s.c, s.res.value, "tools", "name"))
             ELSE Finish(s.c, Raise(s.res.err))
        [] c.op = "list_resources" ->
             IF s.res.kind = "return"
             THEN Finish(s.c, ListResult(s.c, s.res.value, "resources", "uri"))
             ELSE Finish(s.c, Raise(s.res.err))

\* await asyncio.sleep(1), then the next pass of the loop.
retry_sleep(c) ==
  [c EXCEPT !.log = Append(@, [kind |-> "sleep"]), !.attempt = @ + 1, !.pc = "request"]

\* __aenter__: open the HTTP session, then _initialize_mcp_session.
aenter(c) ==
  LET c1 == [c EXCEPT !.session = "open", !.op = "aenter", !.ret = NoRet,
                      !.op_start = Len(c.log)]
  IN  initialize_mcp_session(c1)

\* __aexit__
aexit(c) == [c EXCEPT !.session = IF c.session = "open" THEN "closed" ELSE @,
                      !.pc = "exited"]

\* begin_operation in which list_tools and list_resources do not look at
\* initialized.
begin_operation_lists_unguarded(c, op) ==
  LET c1 == [c EXCEPT !.op = op, !.ret = NoRet, !.op_start = Len(c.log)]
  IN  IF op = "health_check" /\ ~c1.config.enabled
      THEN Finish(c1, Return(JBool(FALSE)))
      ELSE IF op \in RetryOps /\ ~c1.config.enabled
      THEN Finish(c1, Raise(Err("ValueError", "Server is disabled", c1.request_id)))
      ELSE IF ~c1.initialized /\ op \notin ListOps
      THEN [c1 EXCEPT !.pc = "initialize"]
      ELSE AfterInitialized(c1)

\* health_check / call_tool / get_resource / list_tools / list_resources, up
\* to the first network call.
begin_operation(c, op) ==
  LET c1 == [c EXCEPT !.op = op, !.ret = NoRet, !.op_start = Len(c.log)]
  IN  IF op = "health_check" /\ ~c1.config.enabled
      THEN Finish(c1, Return(JBool(FALSE)))
      ELSE IF op \in RetryOps /\ ~c1.config.enabled
      THEN Finish(c1, Raise(Err("ValueError", "Server is disabled", c1.request_id)))
      ELSE IF ~c1.initialized
      THEN initialize_mcp_session(c1)
      ELSE AfterInitialized(c1)


(***************************************************************************)
(* What the transport and the remote server can do with one POST.          *)
(***************************************************************************)
\* Values of the Mcp-Session-Id response header: absent, empty, a token.
HeaderValues == {None, "", "T1"}

\* Decoded JSON-RPC responses: with a result, without one.
ResponseOf(v) == JDict([result |-> v])
ResponseWithoutResult == JDict([jsonrpc |-> JStr(<<"2">>)])

\* Results the remote tools return in Spec.
SessionResults ==
  { JBool(FALSE),
    JDict([tools |-> JList(<<JDict([name |-> JStr(STR_OK)])>>),
           resources |-> JList(<<JDict([uri |-> JStr(STR_OK)])>>)]) }

\* The three ways _parse_sse_response raises (agent.py 181, 189, 191).
SseErrors == {"MCP error", "Invalid JSON in response",
              "No valid JSON data found in SSE response"}

\* The exception _parse_sse_response lets through when the error member of
\* the decoded object is not a dict (agent.py 182).  The TypeError of a
\* decoded value that is not a dict (agent.py 179-180) is handled by every
\* caller as this one is.
SseCrashes == {"AttributeError"}

SseOutcomes(results) ==
  {[ok |-> TRUE, json |-> ResponseOf(v)] : v \in results}
    \cup {[ok |-> TRUE, json |-> ResponseWithoutResult]}
    \cup {[ok |-> FALSE, exc |-> "RuntimeError", msg |-> m] : m \in SseErrors}
    \cup {[ok |-> FALSE, exc |-> x, msg |-> "MCP error"] : x \in SseCrashes}

RequestOutcomes(results) ==
  {[kind |-> k, header |-> h] : k \in {"ClientError", "TimeoutError"}, h \in HeaderValues}
    \cup {[kind |-> "response", status |-> 500, header |-> h,
           sse |-> [ok |-> FALSE, exc |-> "RuntimeError",
                    msg |-> "Invalid JSON in response"]] : h \in HeaderValues}
    \cup {[kind |-> "response", status |-> 200, header |-> h, sse |-> x] :
             h \in HeaderValues, x \in SseOutcomes(results)}

NotificationOutcomes ==
  {[kind |-> k] : k \in {"ClientError", "TimeoutError"}}
    \cup {[kind |-> "response", status |-> s] : s \in {200, 500}}

(***************************************************************************)
(* Spec: one client, every sequence of operations on it.                   *)
(***************************************************************************)
RetryValues == (-1)..MaxRetry

\* The configurations of the server of the session: a disabled server (its
\* retry_attempts is never read), an enabled one with each retry_attempts.
SessionConfigs ==
  {[name |-> "S", enabled |-> FALSE, retry_attempts |-> DefaultRetryAttempts]}
    \cup {[name |-> "S", enabled |-> TRUE, retry_attempts |-> n] : n \in RetryValues}

NoHc == [phase |-> "off"]
NoClient == [pc |-> "off"]
NoAgent == [pc |-> "off"]

Init ==
  /\ client \in {NewClient(cfg) : cfg \in SessionConfigs}
  /\ hc = NoHc
  /\ servers = <<>>
  /\ agent = NoAgent
  /\ probes = <<>>

Idle == client.pc = "idle" /\ client.session = "open"

\* The next request stays within the modelled ids.
WithinIds == client.request_id < MaxRequestId

\* async with client, on a new client or on one whose block was left.
Enter ==
  /\ client.pc \in {"new", "exited"}
  /\ client' = aenter(client)
  /\ UNCHANGED <<hc, servers, agent, probes>>

Exit ==
  /\ client.pc = "idle" /\ client.session = "open"
  /\ client' = aexit(client)
  /\ UNCHANGED <<hc, servers, agent, probes>>

HealthCheck ==
  /\ Idle
  /\ client' = begin_operation(client, "health_check")
  /\ UNCHANGED <<hc, servers, agent, probes>>

CallTool ==
  /\ Idle
  /\ client' = begin_operation(client, "call_tool")
  /\ UNCHANGED <<hc, servers, agent, probes>>

GetResource ==
  /\ Idle
  /\ client' = begin_operation(client, "get_resource")
  /\ UNCHANGED <<hc, servers, agent, probes>>

ListTools ==
  /\ Idle
  /\ client' = begin_operation(client, "list_tools")
  /\ UNCHANGED <<hc, servers, agent, probes>>

ListResources ==
  /\ Idle
  /\ client' = begin_operation(client, "list_resources")
  /\ UNCHANGED <<hc, servers, agent, probes>>

Initialize ==
  /\ client.pc = "initialize" /\ WithinIds
  /\ \E o \in RequestOutcomes(SessionResults) : client' = initialize_request(client, o)
  /\ UNCHANGED <<hc, servers, agent, probes>>

Notify ==
  /\ client.pc = "notify"
  /\ \E o \in NotificationOutcomes : client' = initialize_notify(client, o)
  /\ UNCHANGED <<hc, servers, agent, probes>>

Request ==
  /\ client.pc = "request" /\ WithinIds
  /\ \E o \in RequestOutcomes(SessionResults) : client' = operation_request(client, o)
  /\ UNCHANGED <<hc, servers, agent, probes>>

Sleep ==
  /\ client.pc = "sleep"
  /\ client' = retry_sleep(client)
  /\ UNCHANGED <<hc, servers, agent, probes>>

Next ==
  \/ Enter
  \/ Exit
  \/ HealthCheck
  \/ CallTool
  \/ GetResource
  \/ ListTools
  \/ ListResources
  \/ Initialize
  \/ Notify
  \/ Request
  \/ Sleep

Spec == Init /\ [][Next]_vars


(***************************************************************************)
(* Claims about one session (Spec).                                        *)
(***************************************************************************)
IsRequest(m) == m.kind = "request"
IsNotification(m) == m.kind = "notification"
IsSleep(m) == m.kind = "sleep"

\* The requests a client has sent, in send order.
Requests(c) == SelectSeq(c.log, IsRequest)

\* C1: the ids of the requests a session sends are 1, 2, 3, ... in send
\* order, whatever the methods and whether or not the attempts failed;
\* a notification carries no id and consumes none.
C1_RequestIdsAscendFromOne ==
  LET r == Requests(client)
  IN  /\ \A i \in 1..Len(r) : r[i].id = i
      /\ client.request_id = Len(r)
      /\ \A i \in 1..Len(client.log) :
           IsNotification(client.log[i]) => "id" \notin DOMAIN client.log[i]

\* A session that sent a notification, then an attempt that failed and,
\* after the delay, the attempt that retried it: three requests.
C1_Witness ==
  /\ \E i \in 1..Len(client.log) : IsNotification(client.log[i])
  /\ \E i \in 1..Len(client.log) : IsSleep(client.log[i])
  /\ Len(Requests(client)) >= 3
  /\ Cardinality({Requests(client)[i].method : i \in 1..Len(Requests(client))}) >= 2

\* C2: no request other than initialize is sent while initialized is false.
C2_NoRequestBeforeInitialized ==
  \A i \in 1..Len(client.log) :
    (IsRequest(client.log[i]) /\ client.log[i].method # "initialize")
      => client.log[i].init

\* A session whose first handshake failed, whose second one succeeded and
\* that then sent another request.
C2_Witness ==
  LET r == Requests(client)
  IN  /\ Len(r) >= 3
      /\ r[1].method = "initialize" /\ r[2].method = "initialize"
      /\ r[3].method # "initialize"

\* The part of the log written by the operation in progress (or by the
\* latest one), without the handshake.
LoopLog(c) ==
  LET NotHandshake(m) == ~IsNotification(m) /\ (IsRequest(m) => m.method # "initialize")
  IN  SelectSeq(SubSeq(c.log, c.op_start + 1, Len(c.log)), NotHandshake)

\* Attempts and delays alternate, beginning and ending with an attempt.
Alternates(l) ==
  /\ Len(l) % 2 = 1
  /\ \A i \in 1..Len(l) : IF i % 2 = 1 THEN IsRequest(l[i]) ELSE IsSleep(l[i])

Attempts(c) == Len(SelectSeq(LoopLog(c), IsRequest))

\* The error an attempt produces: the one its request raised, or the
\* missing-result error.
AttemptError(c) ==
  IF c.last.kind = "raise" THEN c.last.err
  ELSE Err("RuntimeError", "No result in response", c.request_id)

AttemptSucceeded(c) == c.last.kind = "return" /\ "result" \in DOMAIN c.last.value.d

\* call_tool or get_resource has ended, after having entered its retry loop
\* with retry_attempts >= 1.
RetryOpEnded(c) ==
  /\ c.pc = "idle" /\ c.op \in RetryOps /\ c.ret.kind # "none"
  /\ c.config.enabled /\ c.config.retry_attempts >= 1
  /\ LoopLog(c) # <<>>

\* C3 as claimed: attempts are made until the first one succeeds or
\* retry_attempts have failed; a delay separates consecutive attempts; the
\* error raised is the last of the N attempts', unmodified; a success at
\* attempt k is returned after exactly k attempts.
C3_RetryUntilSuccessOrExhausted ==
  RetryOpEnded(client) =>
    /\ Alternates(LoopLog(client))
    /\ \/ /\ client.ret.kind = "return"
          /\ AttemptSucceeded(client)
          /\ client.ret.value = client.last.value.d["result"]
          /\ Attempts(client) <= client.config.retry_attempts
       \/ /\ client.ret.kind = "raise"
          /\ ~AttemptSucceeded(client)
          /\ client.ret.err = AttemptError(client)
          /\ Attempts(client) = client.config.retry_attempts


(***************************************************************************)
(* SpecHealth: the classification of health_check applied to every         *)
(* response of a bounded set of decoded responses.                         *)
(***************************************************************************)
\* Longest string among the modelled health results.
MaxStrLen == 2

HealthAlphabet == {" ", "\t", "o", "k"}

RECURSIVE StringsUpTo(_)
StringsUpTo(n) ==
  IF n = 0 THEN {<<>>}
  ELSE StringsUpTo(n - 1)
         \cup {Append(s, ch) : s \in {x \in StringsUpTo(n - 1) : Len(x) = n - 1},
                               ch \in HealthAlphabet}

HealthStrings == StringsUpTo(MaxStrLen) \cup {STR_HEALTHY}

STR_DOWN == <<"d", "o", "w", "n">>
TextItem == JDict([text |-> JStr(<<"x">>)])

\* The values each key of a dict result takes.
HealthValues(key) ==
  CASE key = "content" -> {JList(<<>>), JList(<<TextItem>>), JStr(<<"x">>), JNull}
    [] key = "isError" -> {JBool(TRUE), JBool(FALSE), JNull}
    [] key = "status" ->
         {JStr(STR_OK), JStr(STR_HEALTHY), JStr(STR_DOWN), JStr(<<"O", "K">>), JBool(TRUE)}
    [] key = "error" -> {JNull, JStr(<<>>), JStr(<<"e">>), JDict([code |-> JNum(1)])}

HealthKeys == {"content", "isError", "status", "error"}

HealthDicts ==
  UNION { {JDict(f) : f \in {g \in [K -> UNION {HealthValues(k) : k \in K}] :
                               \A k \in K : g[k] \in HealthValues(k)}} :
          K \in SUBSET HealthKeys }

HealthResults ==
  HealthDicts
    \cup {JStr(x) : x \in HealthStrings}
    \cup {JBool(TRUE), JBool(FALSE), JNum(0), JNum(1), JNull,
          JList(<<>>), JList(<<JBool(FALSE)>>)}

HealthResponses ==
  {ResponseOf(v) : v \in HealthResults}
    \cup {ResponseWithoutResult, JDict([id |-> JNum(1), status |-> JStr(STR_OK)])}

InitHealth ==
  /\ hc \in {[phase |-> "received", response |-> r] : r \in HealthResponses}
  /\ client = NoClient
  /\ servers = <<>>
  /\ agent = NoAgent
  /\ probes = <<>>

\* health_check from the decoded response on (agent.py 254-290).
Classify ==
  /\ hc.phase = "received"
  /\ hc' = [phase |-> "classified", response |-> hc.response,
            healthy |-> HealthOfResponse(hc.response)]
  /\ UNCHANGED <<client, servers, agent, probes>>

NextHealth == Classify

SpecHealth == InitHealth /\ [][NextHealth]_vars

Classified == hc.phase = "classified"
HasResult == "result" \in DOMAIN hc.response.d
ToolResult == hc.response.d["result"]
ResultIs(type) == Classified /\ HasResult /\ ToolResult.t = type
Has(key) == key \in DOMAIN ToolResult.d
HasContentList == Has("content") /\ ToolResult.d["content"].t = "list"
StatusIsOk == ToolResult.d["status"] \in {JStr(STR_OK), JStr(STR_HEALTHY)}
NoTruthy(key) == Has(key) => ~Truthy(ToolResult.d[key])

\* C6: a dict result with a status field and no content list is healthy
\* iff status is "ok" or "healthy", whatever its error/isError fields.
C6_StatusDecides ==
  (ResultIs("dict") /\ Has("status") /\ ~HasContentList) => (hc.healthy <=> StatusIsOk)

\* A result with status "down", no content and no error field, classified
\* unhealthy.
C6_Witness ==
  /\ ResultIs("dict") /\ DOMAIN ToolResult.d = {"status"}
  /\ ToolResult.d["status"] = JStr(STR_DOWN)
  /\ ~hc.healthy

\* C7 as claimed: a non-empty content list without truthy isError is
\* healthy; otherwise status decides when present; otherwise (an empty
\* content list included) healthy iff no truthy error and no truthy isError.
C7_ClaimedPrecedence ==
  ResultIs("dict") =>
    (hc.healthy <=>
       IF HasContentList /\ Len(ToolResult.d["content"].l) > 0 /\ NoTruthy("isError")
       THEN TRUE
       ELSE IF Has("status") THEN StatusIsOk
       ELSE NoTruthy("error") /\ NoTruthy("isError"))

\* C7 amended: a content list decides alone (healthy iff it is non-empty and
\* isError is not truthy); without a content list status decides when
\* present; otherwise healthy iff no truthy error and no truthy isError.
C7_ContentListDecidesFirst ==
  ResultIs("dict") =>
    /\ HasContentList =>
         (hc.healthy <=> (Len(ToolResult.d["content"].l) > 0 /\ NoTruthy("isError")))
    /\ (~HasContentList /\ Has("status")) => (hc.healthy <=> StatusIsOk)
    /\ (~HasContentList /\ ~Has("status")) =>
         (hc.healthy <=> (NoTruthy("error") /\ NoTruthy("isError")))

\* An empty content list next to status "ok": unhealthy.
C7_Witness ==
  /\ ResultIs("dict") /\ HasContentList /\ Len(ToolResult.d["content"].l) = 0
  /\ Has("status") /\ StatusIsOk
  /\ ~hc.healthy

C9_ClaimedFailOpen ==
  Classified =>
    /\ (HasResult /\ ToolResult.t = "bool") => (hc.healthy <=> ToolResult.b)
    /\ (HasResult /\ ToolResult.t \in {"num", "list", "null"}) => hc.healthy
    /\ ~HasResult => hc.healthy

\* C9 amended: a boolean yields its own value; a number, list or null
\* result is healthy; a response without a result field is unhealthy.
C9_FailOpenOnlyWithResult ==
  Classified =>
    /\ (HasResult /\ ToolResult.t = "bool") => (hc.healthy <=> ToolResult.b)
    /\ (HasResult /\ ToolResult.t \in {"num", "list", "null"}) => hc.healthy
    /\ ~HasResult => ~hc.healthy

\* A response that has a status but no result field, classified unhealthy.
C9_Witness ==
  /\ Classified /\ ~HasResult /\ "status" \in DOMAIN hc.response.d
  /\ ~hc.healthy


(***************************************************************************)
(* MCPAgent.  The registry (self.servers) is a sequence of server          *)
(* configurations in the order of the configuration file; a server's id is *)
(* its name.  An item of a server is one of its tools or resources with    *)
(* its configured keywords.  Strings that are matched (keywords, queries)  *)
(* are sequences of one-character strings.                                 *)
(***************************************************************************)
ServerNames == <<"A", "B", "C">>

KW_NURSING == <<"n", "u", "r">>
KW_FILES == <<"F", "i">>

\* The tools and resources configured for each server: A has one resource
\* (the nursing home dataset), B a tool and a resource, C nothing.
ToolsOf(name) ==
  CASE name = "A" -> <<>>
    [] name = "B" -> <<[name |-> "list_files", keywords |-> <<KW_FILES>>]>>
    [] OTHER -> <<>>

ResourcesOf(name) ==
  CASE name = "A" -> <<[name |-> "nursing_home_dataset", keywords |-> <<KW_NURSING>>]>>
    [] name = "B" -> <<[name |-> "files_index", keywords |-> <<KW_FILES, KW_NURSING>>]>>
    [] OTHER -> <<>>

\* MCPServerConfig
ServerConfig(name, enabled) ==
  [name |-> name, enabled |-> enabled, retry_attempts |-> DefaultRetryAttempts,
   tools |-> ToolsOf(name), resources |-> ResourcesOf(name)]

Registries ==
  {[i \in 1..Len(ServerNames) |-> ServerConfig(ServerNames[i], en[i])] :
     en \in [1..Len(ServerNames) -> BOOLEAN]}

Queries == {<<"a", " ", "N", "U", "R">>, <<"f", "i", "n">>, <<"x">>}

\* MCPServerConfig.capabilities: the tool names, then the resource names.
capabilities(cfg) ==
  [tools |-> [i \in 1..Len(cfg.tools) |-> cfg.tools[i].name],
   resources |-> [i \in 1..Len(cfg.resources) |-> cfg.resources[i].name]]

\* str.lower() on the characters of the model.
LowerChar(ch) ==
  CASE ch = "N" -> "n" [] ch = "U" -> "u" [] ch = "R" -> "r" [] ch = "F" -> "f"
    [] OTHER -> ch

Lower(s) == [i \in 1..Len(s) |-> LowerChar(s[i])]

\* k in q, on strings
IsSubstring(k, q) ==
  \E i \in 0..(Len(q) - Len(k)) : SubSeq(q, i + 1, i + Len(k)) = k

\* any(keyword.lower() in query_lower for keyword in keywords)
KeywordsMatch(keywords, user_query) ==
  \E i \in 1..Len(keywords) : IsSubstring(Lower(keywords[i]), Lower(user_query))

ServerIndex(reg, server_id) == {i \in 1..Len(reg) : reg[i].name = server_id}

\* _tool_relevant_to_query: an unknown server is not relevant; for a
\* registered one, server_config.get(...) is evaluated on an MCPServerConfig,
\* a dataclass that has no attribute get, and raises AttributeError before
\* any keyword is looked at.
tool_relevant_to_query(reg, server_id, tool_name, user_query) ==
  IF ServerIndex(reg, server_id) = {}
  THEN Return(JBool(FALSE))
  ELSE Raise([exc |-> "AttributeError", msg |-> "MCPServerConfig has no attribute get",
              server |-> server_id, item |-> tool_name])

\* What one POST to a server of the registry can do, in SpecAgent.
AgentOutcomes(name) ==
  {[kind |-> k, header |-> None] : k \in {"ClientError", "TimeoutError"}}
    \cup {[kind |-> "response", status |-> 500, header |-> None,
           sse |-> [ok |-> FALSE, exc |-> "RuntimeError", msg |-> "Invalid JSON in response"]]}
    \cup {[kind |-> "response", status |-> 200, header |-> h, sse |-> x] :
             h \in {None, name},
             x \in {[ok |-> TRUE, json |-> ResponseOf(JBool(TRUE))],
                    [ok |-> TRUE, json |-> ResponseOf(JBool(FALSE))],
                    [ok |-> TRUE, json |-> ResponseWithoutResult],
                    [ok |-> FALSE, exc |-> "RuntimeError", msg |-> "Invalid JSON in response"]}}

(***************************************************************************)
(* A probe is one task of health_check_all:                                *)
(*   async with MCPStreamingClient(sconfig) as client:                     *)
(*       return sid, await client.health_check()                           *)
(* While it runs it holds its client; once settled it holds its result     *)
(* (the value returned or the exception), the state of the HTTP session it *)
(* leaves behind and the log of what its client sent.                      *)
(***************************************************************************)
NoProbe == [state |-> "none"]
Running(c) == [state |-> "running", client |-> c]
Settled(c, r) == [state |-> "settled", result |-> r, session |-> c.session, log |-> c.log]

\* The task after a step of its client, up to the next network call: when
\* __aenter__ returned, health_check begins; when __aenter__ raised, the
\* exception leaves the async with statement (__aexit__ is not called); when
\* health_check ended, __aexit__ runs and the task ends with its result.
check_server(c) ==
  IF c.pc # "idle" THEN Running(c)
  ELSE IF c.op = "aenter"
  THEN IF c.ret.kind = "return"
       THEN LET h == begin_operation(c, "health_check")
            IN  IF h.pc = "idle" THEN Settled(aexit(h), h.ret) ELSE Running(h)
       ELSE Settled(c, c.ret)
  ELSE Settled(aexit(c), c.ret)

\* health_status.get(server_id, False)
HealthGet(health_status, server_id) ==
  IF server_id \in DOMAIN health_status THEN health_status[server_id] ELSE FALSE

Enabled(reg) == {i \in 1..Len(reg) : reg[i].enabled}

\* check_all_tasks without the filter on enabled: one task per server.
check_all_tasks_unfiltered(reg) ==
  [s \in {reg[i].name : i \in 1..Len(reg)} |->
     check_server(aenter(NewClient(reg[CHOOSE i \in 1..Len(reg) : reg[i].name = s])))]

\* health_check_all, the creation of the tasks: one per enabled server.
check_all_tasks(reg) ==
  [s \in {reg[i].name : i \in 1..Len(reg)} |->
     IF \E i \in Enabled(reg) : reg[i].name = s
     THEN check_server(aenter(NewClient(reg[CHOOSE i \in Enabled(reg) : reg[i].name = s])))
     ELSE NoProbe]

\* health_check_all, after asyncio.gather(*tasks, return_exceptions=True):
\* a task that raised is logged, a task that returned sets its entry.
check_all_results(ps) ==
  LET returned == {s \in DOMAIN ps : ps[s].state = "settled" /\ ps[s].result.kind = "return"}
  IN  [s \in returned |-> ps[s].result.value.b]

\* Items with the resources of a server before its tools.
ItemsResourcesFirst(cfg) ==
  [i \in 1..(Len(cfg.tools) + Len(cfg.resources)) |->
     IF i <= Len(cfg.resources)
     THEN [kind |-> "resource", name |-> capabilities(cfg).resources[i]]
     ELSE [kind |-> "tool", name |-> capabilities(cfg).tools[i - Len(cfg.resources)]]]

\* The tools of a server, then its resources, as _fetch_relevant_mcp_data
\* visits them.
Items(cfg) ==
  [i \in 1..(Len(cfg.tools) + Len(cfg.resources)) |->
     IF i <= Len(cfg.tools)
     THEN [kind |-> "tool", name |-> capabilities(cfg).tools[i]]
     ELSE [kind |-> "resource", name |-> capabilities(cfg).resources[i - Len(cfg.tools)]]]

\* fetch_loop that passes over the disabled servers only, not over the
\* servers health_check_all did not report healthy.
RECURSIVE fetch_loop_unhealthy_too(_, _, _, _)
fetch_loop_unhealthy_too(reg, a, i, j) ==
  IF i > Len(reg)
  THEN [a EXCEPT !.pc = "done", !.ret = Return(JNull)]
  ELSE IF ~reg[i].enabled \/ j > Len(Items(reg[i]))
  THEN fetch_loop_unhealthy_too(reg, a, i + 1, 1)
  ELSE LET r == tool_relevant_to_query(reg, reg[i].name, Items(reg[i])[j].name, a.user_query)
       IN  IF r.kind = "raise"
           THEN [a EXCEPT !.pc = "done", !.ret = r]
           ELSE IF r.value.b
           THEN [a EXCEPT !.pc = "fetch", !.pos = <<i, j>>]
           ELSE fetch_loop_unhealthy_too(reg, a, i, j + 1)

\* _fetch_relevant_mcp_data after health_check_all returned: the loop over
\* the servers and their items, from item j of server i up to the first
\* fetch, the return or an exception.  Both loops test relevance with
\* _tool_relevant_to_query (agent.py 724, 734), outside the try blocks.
RECURSIVE fetch_loop(_, _, _, _)
fetch_loop(reg, a, i, j) ==
  IF i > Len(reg)
  THEN [a EXCEPT !.pc = "done", !.ret = Return(JNull)]
  ELSE IF ~reg[i].enabled \/ ~HealthGet(a.health_status, reg[i].name)
  THEN fetch_loop(reg, a, i + 1, 1)
  ELSE IF j > Len(Items(reg[i]))
  THEN fetch_loop(reg, a, i + 1, 1)
  ELSE LET r == tool_relevant_to_query(reg, reg[i].name, Items(reg[i])[j].name, a.user_query)
       IN  IF r.kind = "raise"
           THEN [a EXCEPT !.pc = "done", !.ret = r]
           ELSE IF r.value.b
           THEN [a EXCEPT !.pc = "fetch", !.pos = <<i, j>>]
           ELSE fetch_loop(reg, a, i, j + 1)

(***************************************************************************)
(* SpecAgent: health_check_all and _fetch_relevant_mcp_data over every     *)
(* registry of Registries; the probes of one health_check_all interleave.  *)
(***************************************************************************)
\* The agent between two calls.  failure is history: the exception a call of
\* generate_response met downstream, if it met one; generations is history
\* too: how often generate_response has called _generate_ai_response.  call
\* is the task of call_server_tool or get_server_resource, with its client
\* and then its result; server_id and include_mcp_data are the arguments of
\* the call in progress.
NewAgent ==
  [pc |-> "idle", task |-> "none", user_query |-> <<>>, health_status |-> <<>>,
   mcp_data |-> <<>>, sources |-> <<>>, pos |-> <<0, 0>>, ret |-> NoRet,
   failure |-> NoRet, call |-> NoProbe,
   server_id |-> None, include_mcp_data |-> FALSE, generations |-> 0]

\* call_server_tool / get_server_resource after a step of the client, up to
\* the next network call:
\*   async with MCPStreamingClient(server_config) as client:
\*       return await client.call_tool(...)      (client.get_resource(...))
\* When __aenter__ raised, the exception leaves the async with statement and
\* __aexit__ is not called; when the operation ended, __aexit__ runs.
call_with_client(c, op) ==
  IF c.pc # "idle" THEN Running(c)
  ELSE IF c.op = "aenter"
  THEN IF c.ret.kind = "return"
       THEN LET h == begin_operation(c, op)
            IN  IF h.pc = "idle" THEN Settled(aexit(h), h.ret) ELSE Running(h)
       ELSE Settled(c, c.ret)
  ELSE Settled(aexit(c), c.ret)

\* The agent once the task of its call has made a step.
calling(a, task) ==
  [a EXCEPT !.call = task, !.pc = IF task.state = "settled" THEN "done" ELSE "calling"]

\* call_server_tool(server_id, ...) / get_server_resource(server_id, ...) up
\* to the first network call; op is the client operation it runs.
call_server(reg, a, server_id, op) ==
  IF ServerIndex(reg, server_id) = {}
  THEN calling([a EXCEPT !.task = op, !.server_id = server_id],
               [state |-> "settled", session |-> "none", log |-> <<>>,
                result |-> Raise(Err("ValueError", "Server not found in configuration", 0))])
  ELSE LET cfg == reg[CHOOSE i \in ServerIndex(reg, server_id) : TRUE]
       IN  calling([a EXCEPT !.task = op, !.server_id = server_id],
                   call_with_client(aenter(NewClient(cfg)), op))

\* What one call of _generate_ai_response can do: return the model's text,
\* raise ValueError or RuntimeError (logged and raised again, agent.py
\* 665-667), or raise another exception of the Gemini client, which is not
\* caught there.
GenerationOutcomes ==
  {[kind |-> "text"]}
    \cup {[kind |-> "raise",
           err |-> [exc |-> x, msg |-> "generation failed", server |-> None, item |-> None]] :
             x \in {"ValueError", "RuntimeError", "GoogleAPIError"}}

\* The dict generate_response returns when nothing failed.
normal_response(a) ==
  [response |-> <<"text">>, sources |-> a.sources, mcp_data |-> a.mcp_data]

\* The dict generate_response returns from its except clause.
degraded_response(e) ==
  [response |-> <<"I encountered an error processing your request: ", e.msg>>,
   sources |-> <<>>, mcp_data |-> [error |-> e.msg]]

\* An exception e reaches the try statement of generate_response, which
\* catches RuntimeError and ValueError (agent.py 625).
answer_raised(a, e) ==
  IF e.exc \in {"RuntimeError", "ValueError"}
  THEN [a EXCEPT !.pc = "done", !.failure = Raise(e), !.ret = Return(degraded_response(e))]
  ELSE [a EXCEPT !.pc = "done", !.failure = Raise(e), !.ret = Raise(e)]

\* generate_response_end asking for the second text whether or not
\* _fetch_relevant_mcp_data brought data.
generate_response_end_always_enhanced(a) ==
  IF a.pc # "done" THEN a
  ELSE IF a.ret.kind = "raise" THEN answer_raised(a, a.ret.err)
  ELSE [a EXCEPT !.pc = "enhance"]

\* generate_response once _fetch_relevant_mcp_data has ended (a.ret is how):
\* with data the text is generated again, without data the first text is
\* returned.
generate_response_end(a) ==
  IF a.pc # "done" THEN a
  ELSE IF a.ret.kind = "raise" THEN answer_raised(a, a.ret.err)
  ELSE IF DOMAIN a.mcp_data # {}
  THEN [a EXCEPT !.pc = "enhance"]
  ELSE [a EXCEPT !.ret = Return(normal_response(a))]

\* The body the /health endpoint returns for the map of health_check_all:
\* all(server_health.values()) if server_health else False.
health_response(server_health) ==
  [status |-> IF DOMAIN server_health # {} /\ \A s \in DOMAIN server_health : server_health[s]
              THEN "healthy" ELSE "degraded",
   servers |-> server_health]

\* What the caller of health_check_all does once it has returned.
after_check_all(reg, a) ==
  CASE a.task = "gather" -> fetch_loop(reg, a, 1, 1)
    [] a.task = "answer" -> generate_response_end(fetch_loop(reg, a, 1, 1))
    [] a.task = "health" -> [a EXCEPT !.pc = "done", !.ret = Return(health_response(a.health_status))]
    [] OTHER -> [a EXCEPT !.pc = "done", !.ret = Return(JNull)]

InitAgent ==
  /\ servers \in Registries
  /\ agent = NewAgent
  /\ probes = [s \in {ServerNames[i] : i \in 1..Len(ServerNames)} |-> NoProbe]
  /\ hc = NoHc
  /\ client = NoClient

\* health_check_all up to asyncio.gather; with no enabled server it returns
\* the empty map at once.
StartCheckAll(a) ==
  /\ probes' = check_all_tasks(servers)
  /\ agent' = IF Enabled(servers) = {}
              THEN after_check_all(servers, a)
              ELSE [a EXCEPT !.pc = "probing"]

\* A call of health_check_all.
CheckAll ==
  /\ agent.pc = "idle"
  /\ StartCheckAll([agent EXCEPT !.task = "check_all"])
  /\ UNCHANGED <<hc, client, servers>>

\* A GET of the /health endpoint, which calls health_check_all.
HealthEndpoint ==
  /\ agent.pc = "idle"
  /\ StartCheckAll([agent EXCEPT !.task = "health"])
  /\ UNCHANGED <<hc, client, servers>>

\* A call of _fetch_relevant_mcp_data(user_query), which begins with
\* health_check_all.
Gather ==
  /\ agent.pc = "idle"
  /\ \E q \in Queries : StartCheckAll([agent EXCEPT !.task = "gather", !.user_query = q])
  /\ UNCHANGED <<hc, client, servers>>

\* GenerateResponse running _fetch_relevant_mcp_data whatever
\* include_mcp_data is.
GenerateResponseAlwaysGathers ==
  /\ agent.pc = "idle"
  /\ \E q \in Queries, include_mcp_data \in BOOLEAN, g \in GenerationOutcomes :
       LET a == [agent EXCEPT !.task = "answer", !.user_query = q,
                              !.include_mcp_data = include_mcp_data, !.generations = 1]
       IN  IF g.kind = "raise"
           THEN agent' = answer_raised(a, g.err) /\ probes' = probes
           ELSE StartCheckAll(a)
  /\ UNCHANGED <<hc, client, servers>>

\* A call of generate_response(user_query, include_mcp_data): the first text
\* is generated, then, when MCP data is asked for, _fetch_relevant_mcp_data
\* runs, beginning with health_check_all.
GenerateResponse ==
  /\ agent.pc = "idle"
  /\ \E q \in Queries, include_mcp_data \in BOOLEAN, g \in GenerationOutcomes :
       LET a == [agent EXCEPT !.task = "answer", !.user_query = q,
                              !.include_mcp_data = include_mcp_data, !.generations = 1]
       IN  IF g.kind = "raise"
           THEN agent' = answer_raised(a, g.err) /\ probes' = probes
           ELSE IF ~include_mcp_data
           THEN /\ agent' = [a EXCEPT !.pc = "done", !.ret = Return(normal_response(a))]
                /\ probes' = probes
           ELSE StartCheckAll(a)
  /\ UNCHANGED <<hc, client, servers>>

\* A call of call_server_tool.
CallServerTool ==
  /\ agent.pc = "idle"
  /\ \E s \in {ServerNames[i] : i \in 1..Len(ServerNames)} \cup {"Z"} :
       agent' = call_server(servers, agent, s, "call_tool")
  /\ UNCHANGED <<hc, client, servers, probes>>

\* A call of get_server_resource.
GetServerResource ==
  /\ agent.pc = "idle"
  /\ \E s \in {ServerNames[i] : i \in 1..Len(ServerNames)} \cup {"Z"} :
       agent' = call_server(servers, agent, s, "get_resource")
  /\ UNCHANGED <<hc, client, servers, probes>>

CallAt(pc) ==
  agent.pc = "calling" /\ agent.call.state = "running" /\ agent.call.client.pc = pc

\* The initialize request of the client of the call.
CallInitialize ==
  /\ CallAt("initialize")
  /\ \E o \in AgentOutcomes(agent.call.client.config.name) :
       agent' = calling(agent, call_with_client(initialize_request(agent.call.client, o),
                                                agent.task))
  /\ UNCHANGED <<hc, client, servers, probes>>

\* Its initialized notification.
CallNotify ==
  /\ CallAt("notify")
  /\ \E o \in NotificationOutcomes :
       agent' = calling(agent, call_with_client(initialize_notify(agent.call.client, o),
                                                agent.task))
  /\ UNCHANGED <<hc, client, servers, probes>>

\* One attempt of its tools/call or resources/read.
CallRequest ==
  /\ CallAt("request")
  /\ \E o \in AgentOutcomes(agent.call.client.config.name) :
       agent' = calling(agent, call_with_client(operation_request(agent.call.client, o),
                                                agent.task))
  /\ UNCHANGED <<hc, client, servers, probes>>

\* The delay before its next attempt.
CallSleep ==
  /\ CallAt("sleep")
  /\ agent' = calling(agent, call_with_client(retry_sleep(agent.call.client), agent.task))
  /\ UNCHANGED <<hc, client, servers, probes>>

ProbeAt(s, pc) == probes[s].state = "running" /\ probes[s].client.pc = pc

\* One probe's initialize request.
ProbeInitialize ==
  /\ agent.pc = "probing"
  /\ \E s \in DOMAIN probes :
       /\ ProbeAt(s, "initialize")
       /\ \E o \in AgentOutcomes(s) :
            probes' = [probes EXCEPT ![s] = check_server(initialize_request(probes[s].client, o))]
  /\ UNCHANGED <<hc, client, servers, agent>>

\* One probe's initialized notification.
ProbeNotify ==
  /\ agent.pc = "probing"
  /\ \E s \in DOMAIN probes :
       /\ ProbeAt(s, "notify")
       /\ \E o \in NotificationOutcomes :
            probes' = [probes EXCEPT ![s] = check_server(initialize_notify(probes[s].client, o))]
  /\ UNCHANGED <<hc, client, servers, agent>>

\* One probe's tools/call of the health tool.
ProbeRequest ==
  /\ agent.pc = "probing"
  /\ \E s \in DOMAIN probes :
       /\ ProbeAt(s, "request")
       /\ \E o \in AgentOutcomes(s) :
            probes' = [probes EXCEPT ![s] = check_server(operation_request(probes[s].client, o))]
  /\ UNCHANGED <<hc, client, servers, agent>>

\* health_check_all returning while a task still runs.
CheckAllReturnEarly ==
  /\ agent.pc = "probing"
  /\ agent' = after_check_all(servers, [agent EXCEPT !.health_status = check_all_results(probes)])
  /\ UNCHANGED <<hc, client, servers, probes>>

\* health_check_all returning only when no task ended with an exception.
CheckAllReturnUnlessRaised ==
  /\ agent.pc = "probing"
  /\ \A s \in DOMAIN probes :
       probes[s].state # "running"
         /\ ~(probes[s].state = "settled" /\ probes[s].result.kind = "raise")
  /\ agent' = after_check_all(servers, [agent EXCEPT !.health_status = check_all_results(probes)])
  /\ UNCHANGED <<hc, client, servers, probes>>

\* asyncio.gather returns once every task has settled; health_check_all
\* builds its map and returns it.  _fetch_relevant_mcp_data then runs its
\* loop.
CheckAllReturn ==
  /\ agent.pc = "probing"
  /\ \A s \in DOMAIN probes : probes[s].state # "running"
  /\ agent' = after_check_all(servers, [agent EXCEPT !.health_status = check_all_results(probes)])
  /\ UNCHANGED <<hc, client, servers, probes>>

NextAgent ==
  \/ CheckAll
  \/ HealthEndpoint
  \/ Gather
  \/ GenerateResponse
  \/ CallServerTool
  \/ GetServerResource
  \/ CallInitialize
  \/ CallNotify
  \/ CallRequest
  \/ CallSleep
  \/ ProbeInitialize
  \/ ProbeNotify
  \/ ProbeRequest
  \/ CheckAllReturn

SpecAgent == InitAgent /\ [][NextAgent]_vars

\* health_check_all alone, called directly and by the /health endpoint.
NextCheckAll ==
  \/ CheckAll
  \/ HealthEndpoint
  \/ ProbeInitialize
  \/ ProbeNotify
  \/ ProbeRequest
  \/ CheckAllReturn

\* The event loop runs every task that can run: a request of a probe is
\* answered, fails or is ended by the timeout of its session, and the
\* coroutine that waits in asyncio.gather is resumed once every task has
\* settled.
SpecAgentLive ==
  /\ InitAgent /\ [][NextCheckAll]_vars
  /\ WF_vars(ProbeInitialize) /\ WF_vars(ProbeNotify) /\ WF_vars(ProbeRequest)
  /\ WF_vars(CheckAllReturn)


(***************************************************************************)
(* Claims about health_check_all and _fetch_relevant_mcp_data (SpecAgent). *)
(***************************************************************************)
EnabledNames == {servers[i].name : i \in Enabled(servers)}
DisabledNames == {servers[i].name : i \in (1..Len(servers)) \ Enabled(servers)}

\* health_check_all has returned its map.
CheckAllReturned == agent.pc \in {"done", "fetch"}

ProbeRaised(s) == probes[s].state = "settled" /\ probes[s].result.kind = "raise"
ProbeReturned(s) == probes[s].state = "settled" /\ probes[s].result.kind = "return"

\* C4 as claimed: the map health_check_all returns has an entry for every
\* enabled server: false where the probe raised, the probe's own result
\* elsewhere.
C4_ClaimedEntryForEveryEnabledServer ==
  CheckAllReturned =>
    /\ DOMAIN agent.health_status = EnabledNames
    /\ \A s \in EnabledNames :
         /\ ProbeRaised(s) => agent.health_status[s] = FALSE
         /\ ProbeReturned(s) => agent.health_status[s] = probes[s].result.value.b

\* C5: a disabled server is not probed, is no key of the map of
\* health_check_all nor of the data of _fetch_relevant_mcp_data, is named by
\* no source and is not where an exception of these operations comes from;
\* its descriptor stays in the registry.
C5_DisabledServerLeftOut ==
  /\ \A i \in 1..Len(ServerNames) : i \in DOMAIN servers /\ servers[i].name = ServerNames[i]
  /\ \A s \in DisabledNames :
       /\ probes[s].state = "none"
       /\ s \notin DOMAIN agent.health_status
       /\ s \notin DOMAIN agent.mcp_data
       /\ \A k \in 1..Len(agent.sources) : agent.sources[k][1] # s
       /\ agent.ret.kind = "raise" => agent.ret.err.server # s

\* _fetch_relevant_mcp_data has returned over a registry in which B, which
\* has a tool and a resource, is disabled and C is enabled and healthy.
C5_Witness ==
  /\ agent.task = "gather" /\ agent.pc = "done" /\ agent.ret.kind = "return"
  /\ "B" \in DisabledNames
  /\ "C" \in EnabledNames /\ HealthGet(agent.health_status, "C")

\* The items of a server that have a configured keyword occurring in the
\* query, each matched against its own keyword list.
RelevantItems(cfg, user_query) ==
  {t.name : t \in {u \in {cfg.tools[i] : i \in 1..Len(cfg.tools)}
                             \cup {cfg.resources[i] : i \in 1..Len(cfg.resources)} :
                         KeywordsMatch(u.keywords, user_query)}}

\* C10 as claimed: _fetch_relevant_mcp_data returns, under each enabled and
\* healthy server's id, the data of exactly the items of that server that
\* have a keyword occurring in the query, and sources has one
\* "{server name} - {item name}" entry per fetched item.
C10_ClaimedGatherResult ==
  (agent.task = "gather" /\ agent.pc = "done") =>
    LET expected ==
          {<<servers[i].name, " - ", n>> :
             i \in {k \in Enabled(servers) : HealthGet(agent.health_status, servers[k].name)},
             n \in UNION {RelevantItems(servers[k], agent.user_query) : k \in 1..Len(servers)}}
        fetched ==
          {e \in expected :
             \E i \in 1..Len(servers) :
               servers[i].name = e[1] /\ e[3] \in RelevantItems(servers[i], agent.user_query)}
    IN  /\ agent.ret.kind = "return"
        /\ DOMAIN agent.mcp_data = {e[1] : e \in fetched}
        /\ \A s \in DOMAIN agent.mcp_data :
             DOMAIN agent.mcp_data[s] = {e[3] : e \in {x \in fetched : x[1] = s}}
        /\ {agent.sources[k] : k \in 1..Len(agent.sources)} = fetched
        /\ Len(agent.sources) = Cardinality(fetched)


(***************************************************************************)
(* SpecRelevant: the two relevance tests of MCPAgent applied to every      *)
(* server id, item name and query of a bounded set, over every registry,   *)
(* and the statements around the fetches of _fetch_relevant_mcp_data: its  *)
(* except clause applied to every exception a fetch can end with, and the  *)
(* loop over the items with whether an item is fetched, and how its fetch  *)
(* ends, as inputs.                                                        *)
(***************************************************************************)
\* _resource_relevant_to_query: the same statements as
\* _tool_relevant_to_query, on the resources of the server.
resource_relevant_to_query(reg, server_id, resource_name, user_query) ==
  IF ServerIndex(reg, server_id) = {}
  THEN Return(JBool(FALSE))
  ELSE Raise([exc |-> "AttributeError", msg |-> "MCPServerConfig has no attribute get",
              server |-> server_id, item |-> resource_name])

\* The server ids asked about: the registered ones and one that is not.
AskedServers == {ServerNames[i] : i \in 1..Len(ServerNames)} \cup {"Z"}

\* The item names asked about: the configured ones and one that is not.
AskedItems == {"list_files", "files_index", "nursing_home_dataset", "unknown_item"}

\* The exceptions a fetch of _fetch_relevant_mcp_data can end with: those
\* call_server_tool and get_server_resource raise again (agent.py 556-558,
\* 574-576), and aiohttp.ClientError, which the except clause names.
FetchErrors == {"ValueError", "RuntimeError", "TimeoutError", "ClientError"}

\* except (RuntimeError, ValueError, aiohttp.ClientError) around one fetch:
\* the failure is logged and the loop goes on to the next item, or the
\* exception leaves _fetch_relevant_mcp_data.
fetch_except(exc) ==
  IF exc \in {"RuntimeError", "ValueError", "ClientError"} THEN "omitted" ELSE "raised"

\* fetch_store that records the result and forgets the source.
fetch_store_without_source(a, server_id, item, result) ==
  [a EXCEPT !.mcp_data =
     [s \in DOMAIN a.mcp_data \cup {server_id} |->
        IF s # server_id THEN a.mcp_data[s]
        ELSE [n \in {item} |-> result]]]

\* mcp_data.setdefault(server_id, {})[item] = result
\* sources.append(f"{server_config.name} - {item}")
fetch_store(a, server_id, item, result) ==
  [a EXCEPT !.mcp_data =
              [s \in DOMAIN a.mcp_data \cup {server_id} |->
                 IF s # server_id THEN a.mcp_data[s]
                 ELSE LET old == IF s \in DOMAIN a.mcp_data THEN DOMAIN a.mcp_data[s] ELSE {}
                      IN  [n \in old \cup {item} |->
                             IF n = item THEN result ELSE a.mcp_data[s][n]]],
            !.sources = Append(@, <<server_id, " - ", item>>)]

\* The items the loop of _fetch_relevant_mcp_data comes to, from server i on:
\* those of the enabled servers, in the order of the registry.
RECURSIVE visit_list(_, _)
visit_list(reg, i) ==
  IF i > Len(reg) THEN <<>>
  ELSE (IF reg[i].enabled
        THEN [j \in 1..Len(Items(reg[i])) |->
                [server |-> reg[i].name, item |-> Items(reg[i])[j].name]]
        ELSE <<>>) \o visit_list(reg, i + 1)

(***************************************************************************)
(* The /query endpoint.  A query text is a sequence of runs of one         *)
(* character, so that texts around the length limit are within reach.      *)
(***************************************************************************)
QueryLimit == 1000

QueryRuns == {[ch |-> ch, n |-> n] : ch \in {" ", "a"}, n \in {1, 999, 1001}}

QueryTexts == UNION {[1..k -> QueryRuns] : k \in 0..2}

\* request.query.strip(): the blanks at both ends are taken away.
query_strip(q) ==
  LET blank(k) == q[k].ch = " "
      first == IF \A k \in 1..Len(q) : blank(k) THEN Len(q) + 1
               ELSE CHOOSE k \in 1..Len(q) : ~blank(k) /\ \A j \in 1..(k - 1) : blank(j)
      last == IF \A k \in 1..Len(q) : blank(k) THEN Len(q)
              ELSE CHOOSE k \in 1..Len(q) : ~blank(k) /\ \A j \in (k + 1)..Len(q) : blank(j)
  IN  SubSeq(q, first, last)

RECURSIVE query_len(_)
\* len(sanitized_query)
query_len(q) == IF q = <<>> THEN 0 ELSE Head(q).n + query_len(Tail(q))

\* query_agent: the two HTTPException(400) are raised inside the try block,
\* whose `except Exception` answers every exception with HTTPException(500);
\* generated is how generate_response ends when it is called.
query_agent(q, generated) ==
  LET n == query_len(query_strip(q))
  IN  IF n = 0 \/ n > QueryLimit
      THEN [status |-> 500, generated |-> FALSE]
      ELSE [status |-> IF generated = "return" THEN 200 ELSE 500, generated |-> TRUE]

InitRelevant ==
  /\ servers \in Registries
  /\ agent \in {[pc |-> "asked", kind |-> k, server_id |-> s, item |-> n, user_query |-> q] :
                  k \in {"tool", "resource"}, s \in AskedServers, n \in AskedItems,
                  q \in Queries}
                \cup {[pc |-> "fetching", kind |-> k, item |-> n, exc |-> x] :
                        k \in {"tool", "resource"}, n \in AskedItems, x \in FetchErrors}
                \cup {[pc |-> "looping", pos |-> 1, mcp_data |-> <<>>, sources |-> <<>>]}
                \cup {[pc |-> "query", query |-> q] : q \in QueryTexts}
  /\ probes = <<>>
  /\ hc = NoHc
  /\ client = NoClient

\* A call of _tool_relevant_to_query.
ToolRelevant ==
  /\ agent.pc = "asked" /\ agent.kind = "tool"
  /\ agent' = [pc |-> "answered", kind |-> agent.kind, server_id |-> agent.server_id,
               item |-> agent.item, user_query |-> agent.user_query,
               ret |-> tool_relevant_to_query(servers, agent.server_id, agent.item,
                                              agent.user_query)]
  /\ UNCHANGED <<hc, client, servers, probes>>

\* A call of _resource_relevant_to_query.
ResourceRelevant ==
  /\ agent.pc = "asked" /\ agent.kind = "resource"
  /\ agent' = [pc |-> "answered", kind |-> agent.kind, server_id |-> agent.server_id,
               item |-> agent.item, user_query |-> agent.user_query,
               ret |-> resource_relevant_to_query(servers, agent.server_id, agent.item,
                                                  agent.user_query)]
  /\ UNCHANGED <<hc, client, servers, probes>>

\* The fetch of one item ends with an exception.
FetchFailed ==
  /\ agent.pc = "fetching"
  /\ agent' = [pc |-> "handled", kind |-> agent.kind, item |-> agent.item, exc |-> agent.exc,
               ret |-> fetch_except(agent.exc)]
  /\ UNCHANGED <<hc, client, servers, probes>>

\* One pass of the loop over the items: the item is passed over (its server
\* is not healthy, or the item is not relevant), or it is fetched and the
\* fetch returns a result or ends with an exception.
FetchItem ==
  /\ agent.pc = "looping" /\ agent.pos <= Len(visit_list(servers, 1))
  /\ LET v == visit_list(servers, 1)[agent.pos]
         next == [agent EXCEPT !.pos = @ + 1]
     IN  \E o \in {"skip", "result"} \cup FetchErrors :
           agent' = CASE o = "skip" -> next
                      [] o = "result" -> fetch_store(next, v.server, v.item, JBool(TRUE))
                      [] OTHER -> IF fetch_except(o) = "omitted" THEN next
                                  ELSE [agent EXCEPT !.pc = "raised"]
  /\ UNCHANGED <<hc, client, servers, probes>>

\* return mcp_data, sources
FetchReturn ==
  /\ agent.pc = "looping" /\ agent.pos > Len(visit_list(servers, 1))
  /\ agent' = [agent EXCEPT !.pc = "returned"]
  /\ UNCHANGED <<hc, client, servers, probes>>

\* A POST to /query.
QueryEndpoint ==
  /\ agent.pc = "query"
  /\ \E g \in {"return", "raise"} :
       agent' = [pc |-> "responded", query |-> agent.query,
                 response |-> query_agent(agent.query, g)]
  /\ UNCHANGED <<hc, client, servers, probes>>

NextRelevant ==
  \/ QueryEndpoint
  \/ FetchFailed
  \/ FetchItem
  \/ FetchReturn
  \/ ToolRelevant
  \/ ResourceRelevant

SpecRelevant == InitRelevant /\ [][NextRelevant]_vars

\* The keyword lists configured under the asked name for the asked kind of
\* item on the asked server (none when the server or the item is unknown).
ConfiguredKeywords ==
  LET items(cfg) == IF agent.kind = "tool" THEN cfg.tools ELSE cfg.resources
      named(cfg) == {j \in 1..Len(items(cfg)) : items(cfg)[j].name = agent.item}
  IN  UNION {{items(servers[i])[j].keywords : j \in named(servers[i])} :
               i \in ServerIndex(servers, agent.server_id)}

\* C11 as claimed: the relevance test returns, and returns true iff a
\* keyword configured for the item occurs, case-insensitively, in the
\* query; it returns false for an unknown server or item; it never raises.
C11_ClaimedRelevance ==
  agent.pc = "answered" =>
    /\ agent.ret.kind = "return"
    /\ agent.ret.value.b <=> \E kws \in ConfiguredKeywords : KeywordsMatch(kws, agent.user_query)


(***************************************************************************)
(* A claim about generate_response (SpecAgent).                            *)
(***************************************************************************)
\* C12 as claimed: generate_response never raises; when text generation,
\* health aggregation or gathering raised, whatever the exception, it
\* returns the degraded response: a text holding the error detail, no
\* sources.
C12_ClaimedNeverRaises ==
  (agent.task = "answer" /\ agent.pc = "done") =>
    /\ agent.ret.kind = "return"
    /\ agent.failure.kind = "raise" =>
         agent.ret.value = degraded_response(agent.failure.err)


(***************************************************************************)
(* _parse_sse_response on the text of a body.  A text is a sequence of     *)
(* symbols: single characters for the framing (d, a, t, :, space, tab, CR, *)
(* LF), and one symbol per JSON token; the string "a b" of two of the      *)
(* texts is spelled by its characters between two quote symbols.           *)
(* json.loads is the library's: it is the table JsonTexts from texts to    *)
(* values, undefined (JSONDecodeError) outside it, and it ignores          *)
(* whitespace around the text.                                             *)
(***************************************************************************)
LF == "\n"
CR == "\r"

\* s.startswith(p)
StartsWith(s, p) == Len(s) >= Len(p) /\ SubSeq(s, 1, Len(p)) = p

\* s[n:]
DropFirst(s, n) == SubSeq(s, n + 1, Len(s))

\* s.split(sep): the pieces between the occurrences of sep, found from the
\* left and not overlapping.
RECURSIVE Split(_, _)
Split(s, sep) ==
  LET at == {i \in 1..(Len(s) - Len(sep) + 1) : SubSeq(s, i, i + Len(sep) - 1) = sep}
  IN  IF at = {} THEN <<s>>
      ELSE LET i == CHOOSE k \in at : \A j \in at : k <= j
           IN  <<SubSeq(s, 1, i - 1)>> \o Split(DropFirst(s, i + Len(sep) - 1), sep)

\* "".join(parts)
RECURSIVE Join(_)
Join(parts) == IF parts = <<>> THEN <<>> ELSE Head(parts) \o Join(Tail(parts))

DATA == <<"d", "a", "t", "a", ":">>
DATA_SPACE == <<"d", "a", "t", "a", ":", " ">>

\* The JSON texts json.loads accepts, each with the value it yields.
JsonTexts ==
  { [text |-> <<"{", "'result'", ":", "true", "}">>,
     value |-> JDict([result |-> JBool(TRUE)])],
    [text |-> <<"{", "'result'", ":", "{", "'error'", ":", "1", "}", "}">>,
     value |-> JDict([result |-> JDict([error |-> JNum(1)])])],
    [text |-> <<"{", "'jsonrpc'", ":", "'2'", "}">>,
     value |-> ResponseWithoutResult],
    [text |-> <<"{", "'error'", ":", "{", "'code'", ":", "1", ",", "'message'", ":", "'m'", "}", "}">>,
     value |-> JDict([error |-> JDict([code |-> JNum(1), message |-> JStr(<<"m">>)])])],
    [text |-> <<"{", "'error'", ":", "{", "'data'", ":", "1", "}", "}">>,
     value |-> JDict([error |-> JDict([data |-> JNum(1)])])],
    [text |-> <<"{", "'error'", ":", "{", "'code'", ":", "1", "}", ",", "'result'", ":", "true", "}">>,
     value |-> JDict([error |-> JDict([code |-> JNum(1)]), result |-> JBool(TRUE)])],
    [text |-> <<"{", "'error'", ":", "'m'", "}">>,
     value |-> JDict([error |-> JStr(<<"m">>)])],
    [text |-> <<"{", "'error'", ":", "null", "}">>,
     value |-> JDict([error |-> JNull])],
    [text |-> <<"[", "'error'", "]">>,
     value |-> JList(<<JStr(<<"e", "r", "r", "o", "r">>)>>)],
    [text |-> <<"[", "1", "]">>,
     value |-> JList(<<JNum(1)>>)],
    [text |-> <<"'error'">>,
     value |-> JStr(<<"e", "r", "r", "o", "r">>)],
    [text |-> <<"1">>,
     value |-> JNum(1)],
    [text |-> <<"{", "'result'", ":", "'", "a", " ", "b", "'", "}">>,
     value |-> JDict([result |-> JStr(<<"a", " ", "b">>)])],
    [text |-> <<"{", "'result'", ":", "'", "a", "b", "'", "}">>,
     value |-> JDict([result |-> JStr(<<"a", "b">>)])] }

\* json.loads(data)
json_loads(data) ==
  LET hits == {e \in JsonTexts : e.text = Strip(data)}
  IN  IF hits = {} THEN Raise([exc |-> "JSONDecodeError", msg |-> <<"Expecting value">>])
      ELSE Return((CHOOSE e \in hits : TRUE).value)

\* key in x: a key of a dict, an element of a list, a substring of a str;
\* TypeError on None, a bool and a number.
json_contains(x, key, key_chars) ==
  CASE x.t = "dict" -> Return(JBool(key \in DOMAIN x.d))
    [] x.t = "list" -> Return(JBool(\E i \in 1..Len(x.l) : x.l[i] = JStr(key_chars)))
    [] x.t = "str" ->
         Return(JBool(\E i \in 0..(Len(x.s) - Len(key_chars)) :
                        SubSeq(x.s, i + 1, i + Len(key_chars)) = key_chars))
    [] OTHER -> Raise([exc |-> "TypeError", msg |-> <<"argument is not iterable">>])

UNKNOWN == JStr(<<"unknown">>)
UNKNOWN_ERROR == JStr(<<"unknown error">>)

\* agent.py 176-186: json.loads, the test for a JSON-RPC error, the return.
\* json_data["error"] raises TypeError on a list and on a str; error.get
\* raises AttributeError on anything that is not a dict.
decode_data(data) ==
  LET loaded == json_loads(data)
  IN  IF loaded.kind = "raise"
      THEN Raise([exc |-> "RuntimeError", msg |-> <<"Invalid JSON in response: ">> \o loaded.err.msg])
      ELSE LET json_data == loaded.value
               has_error == json_contains(json_data, "error", <<"e", "r", "r", "o", "r">>)
           IN  IF has_error.kind = "raise" THEN has_error
               ELSE IF ~has_error.value.b THEN Return(json_data)
               ELSE IF json_data.t # "dict"
               THEN Raise([exc |-> "TypeError", msg |-> <<"indices must be integers">>])
               ELSE LET error == json_data.d["error"]
                    IN  IF error.t # "dict"
                        THEN Raise([exc |-> "AttributeError", msg |-> <<"object has no attribute get">>])
                        ELSE Raise([exc |-> "RuntimeError",
                                    msg |-> <<"MCP error ", DictGet(error, "code", UNKNOWN), ": ",
                                              DictGet(error, "message", UNKNOWN_ERROR)>>])

\* agent.py 165-170 with "data: " and "data:" both cut after six characters.
data_of_line_always_six(line) ==
  LET l == Strip(line)
  IN  IF StartsWith(l, DATA) THEN <<DropFirst(l, 6)>> ELSE <<>>

\* agent.py 164-170: the data a line contributes, as a sequence of zero or
\* one text.
data_of_line(line) ==
  LET l == Strip(line)
  IN  IF StartsWith(l, DATA)
      THEN IF StartsWith(l, DATA_SPACE) THEN <<DropFirst(l, 6)>> ELSE <<DropFirst(l, 5)>>
      ELSE <<>>

\* agent.py 160-173: the data lines of an event, joined.
RECURSIVE data_lines(_)
data_lines(lines) ==
  IF lines = <<>> THEN <<>> ELSE data_of_line(Head(lines)) \o data_lines(Tail(lines))

\* parse_events going on to the next event when the data of an event is
\* not JSON.
RECURSIVE parse_events_skipping_invalid(_, _)
parse_events_skipping_invalid(events, i) ==
  IF i > Len(events)
  THEN Raise([exc |-> "RuntimeError", msg |-> <<"No valid JSON data found in SSE response">>])
  ELSE LET dl == data_lines(Split(events[i], <<LF>>))
       IN  IF dl # <<>> /\ json_loads(Join(dl)).kind = "return"
           THEN decode_data(Join(dl))
           ELSE parse_events_skipping_invalid(events, i + 1)

\* agent.py 156-191: the loop over the events from event i on.
RECURSIVE parse_events(_, _)
parse_events(events, i) ==
  IF i > Len(events)
  THEN Raise([exc |-> "RuntimeError", msg |-> <<"No valid JSON data found in SSE response">>])
  ELSE IF Strip(events[i]) = <<>> THEN parse_events(events, i + 1)
  ELSE LET dl == data_lines(Split(events[i], <<LF>>))
       IN  IF dl # <<>> /\ Strip(Join(dl)) # <<>>
           THEN decode_data(Join(dl))
           ELSE parse_events(events, i + 1)

\* _parse_sse_response(content)
parse_sse_content(content) == parse_events(Split(content, <<LF, LF>>), 1)

(***************************************************************************)
(* SpecSse: the decoder applied to every body of a bounded set.  A body is *)
(* held with the way it was made: the lines before its data line, the      *)
(* blanks before "data:", the form of the prefix, the text, the end of the *)
(* line.                                                                   *)
(***************************************************************************)
\* Lines that precede the data line inside its event.
SseFieldLines == {<<>>, <<"i", "d", ":", "1", LF>>, <<":", LF>>}

SseIndents == {<<>>, <<" ">>}
SseForms == {DATA_SPACE, DATA}
SseLineEnds == {<<>>, <<LF>>, <<LF, LF>>, <<CR, LF, CR, LF>>}

\* The texts of the data lines: the JSON texts and two that are not JSON.
SseTexts == {e.text : e \in JsonTexts} \cup {<<"{">>, <<"{", "'result'", ":", "}">>}

\* The text of a body made of one event with one data line.
OneEvent(m) == m.fields \o m.indent \o m.form \o m.text \o m.ending

OneEventBodies ==
  {[events |-> 1, fields |-> f, indent |-> i, form |-> p, text |-> t, ending |-> e] :
     f \in SseFieldLines, i \in SseIndents, p \in SseForms, t \in SseTexts, e \in SseLineEnds}

\* Other bodies: empty, blank, without data, a data line without text, an
\* event without data before the data event, two data events, a text cut
\* over two data lines.
OtherBodies ==
  LET ok == <<"{", "'result'", ":", "true", "}">>
      err == <<"{", "'error'", ":", "'m'", "}">>
  IN  {[events |-> n, content |-> c] : n \in {0}, c \in
         { <<>>, <<LF, LF>>, <<" ", LF>>, <<"i", "d", ":", "1", LF, LF>>, DATA_SPACE \o <<LF, LF>> }}
      \cup {[events |-> n, content |-> c] : n \in {2}, c \in
         { <<":", LF, LF>> \o DATA_SPACE \o ok \o <<LF, LF>>,
           DATA \o <<LF, LF>> \o DATA_SPACE \o ok \o <<LF, LF>>,
           DATA_SPACE \o ok \o <<LF, LF>> \o DATA_SPACE \o err \o <<LF, LF>>,
           DATA_SPACE \o err \o <<LF, LF>> \o DATA_SPACE \o ok \o <<LF, LF>>,
           DATA_SPACE \o <<"{">> \o <<LF, LF>> \o DATA_SPACE \o ok \o <<LF, LF>> }}
      \cup {[events |-> n, content |-> c] : n \in {1}, c \in
         { DATA_SPACE \o <<"{", "'result'", ":">> \o <<LF>> \o DATA \o <<"true", "}">> \o <<LF, LF>>,
           DATA_SPACE \o ok \o <<LF>> \o DATA_SPACE \o ok \o <<LF, LF>> }}

\* Bodies of one event whose payload, a JSON text, is cut after its k-th
\* symbol into two consecutive data lines, the second in either form.
CutBodies ==
  UNION {{[events |-> 1, payload |-> t, cut |-> k, form |-> p,
           content |-> DATA_SPACE \o SubSeq(t, 1, k) \o <<LF>> \o p \o DropFirst(t, k)
                         \o <<LF, LF>>] :
            k \in 1..(Len(t) - 1), p \in SseForms} :
         t \in {e.text : e \in JsonTexts}}

\* Bodies of one event with its payload on one data line, with blank lines
\* before the event and blank lines or events without data after it.
PaddedBodies ==
  {[events |-> 1, payload |-> t, before |-> b, after |-> a,
    content |-> b \o DATA_SPACE \o t \o a] :
     t \in {e.text : e \in JsonTexts},
     b \in {<<>>, <<LF>>, <<LF, LF>>, <<LF, LF, LF>>, <<" ", LF, LF>>},
     a \in {<<>>, <<LF, LF>>, <<LF, LF, LF>>, <<LF, LF, LF, LF>>, <<LF, LF, ":", LF, LF>>,
            <<LF, LF>> \o DATA \o <<LF, LF>>}}

\* Events: without data line, with a data line that holds nothing or a
\* blank, with a data line that holds a text.  data is the payload.
SseEvents ==
  {[lines |-> l, data |-> <<>>] :
     l \in {<<":">>, <<"i", "d", ":", "1">>, DATA, DATA_SPACE \o <<" ">>}}
    \cup {[lines |-> DATA_SPACE \o t, data |-> t] : t \in SseTexts}

\* Bodies of two events.
TwoEventBodies ==
  {[events |-> 2, first |-> e1, second |-> e2,
    content |-> e1.lines \o <<LF, LF>> \o e2.lines \o <<LF, LF>>] :
     e1 \in SseEvents, e2 \in SseEvents}

InitSse ==
  /\ client \in {[pc |-> "received", made |-> m, content |-> OneEvent(m)] : m \in OneEventBodies}
                  \cup {[pc |-> "received", made |-> m, content |-> m.content] :
                          m \in OtherBodies \cup CutBodies \cup PaddedBodies \cup TwoEventBodies}
  /\ hc = NoHc
  /\ servers = <<>>
  /\ agent = NoAgent
  /\ probes = <<>>

\* A call of _parse_sse_response(content).
Decode ==
  /\ client.pc = "received"
  /\ client' = [pc |-> "decoded", made |-> client.made, content |-> client.content,
                ret |-> parse_sse_content(client.content)]
  /\ UNCHANGED <<hc, servers, agent, probes>>

NextSse == Decode

SpecSse == InitSse /\ [][NextSse]_vars

\* The body was made of one event with one data line.
OneDataLine == "text" \in DOMAIN client.made

\* The value of the text of the data line when it is JSON.
IsJson == \E e \in JsonTexts : e.text = client.made.text
MadeValue == (CHOOSE e \in JsonTexts : e.text = client.made.text).value

\* C13: a body of one event with one data line that holds a JSON object
\* without error key decodes to that object, with "data: " and with "data:".
C13_OneDataLineDecodes ==
  (client.pc = "decoded" /\ OneDataLine /\ IsJson) =>
    ((MadeValue.t = "dict" /\ "error" \notin DOMAIN MadeValue.d)
       => client.ret = Return(MadeValue))

\* A body in the bare "data:" form, after an id line, decoded to its object.
C13_Witness ==
  /\ client.pc = "decoded" /\ OneDataLine /\ IsJson
  /\ client.made.form = DATA /\ client.made.fields # <<>>
  /\ MadeValue.t = "dict" /\ "result" \in DOMAIN MadeValue.d
  /\ client.ret = Return(MadeValue)

\* C14 as claimed: a body whose JSON has an error key makes the decoder
\* raise the protocol error (RuntimeError) that carries the code and the
\* message of the error member, whatever the type of that member.
C14_ClaimedErrorRaises ==
  (client.pc = "decoded" /\ OneDataLine /\ IsJson) =>
    ((MadeValue.t = "dict" /\ "error" \in DOMAIN MadeValue.d) =>
       /\ client.ret.kind = "raise"
       /\ client.ret.err.exc = "RuntimeError"
       /\ client.ret.err.msg[1] = "MCP error ")


(***************************************************************************)
(* More claims about one session (Spec).                                   *)
(***************************************************************************)
\* The fields of the session a handshake writes, and what it sends.
Handshaken(c) == <<c.log, c.request_id, c.session_id, c.initialized>>

\* C15: _initialize_mcp_session on an initialized session is a no-op: the
\* call sends nothing and leaves request_id, session_id and initialized as
\* they are; no initialize request and no initialized notification is ever
\* sent by a session whose initialized flag is set.
C15_NegotiateIdempotent ==
  /\ [](\A i \in 1..Len(client.log) :
          /\ (IsRequest(client.log[i]) /\ client.log[i].method = "initialize")
               => ~client.log[i].init
          /\ IsNotification(client.log[i])
               => (i > 1 /\ IsRequest(client.log[i - 1])
                         /\ client.log[i - 1].method = "initialize"))
  /\ [][(client.initialized /\ client.pc \in {"new", "idle", "exited"})
          => Handshaken(client') = Handshaken(client)]_vars

\* An initialized session that has sent requests, left its block and entered
\* it again: __aenter__ called _initialize_mcp_session and nothing was sent.
C15_Witness ==
  /\ client.pc = "idle" /\ client.op = "aenter" /\ client.initialized
  /\ client.ret = Return(Self)
  /\ client.op_start = Len(client.log) /\ Len(Requests(client)) >= 2


\* C16 as claimed: whatever happens to the initialized notification
\* (non-2xx status, connection error, timeout), the step that sends it
\* raises nothing and sets initialized.
C16_ClaimedNotificationNeverRaises ==
  [][client.pc = "notify" => (client'.initialized /\ client'.ret.kind # "raise")]_vars

\* An operation has ended on the failure of its initialize request; it is
\* not health_check, which turns the error into False.
InitializeFailed(c) ==
  /\ c.pc = "idle" /\ c.op # "health_check" /\ Len(c.log) > c.op_start
  /\ IsRequest(c.log[Len(c.log)]) /\ c.log[Len(c.log)].method = "initialize"

\* C17 as claimed: when the initialize request fails, whatever the error,
\* _initialize_mcp_session raises the session error (RuntimeError "MCP
\* session initialization failed") that wraps the cause, sends no
\* notification and leaves initialized false.
C17_ClaimedInitializeFailureWrapped ==
  InitializeFailed(client) =>
    /\ client.last.kind = "raise"
    /\ client.ret = Raise([exc |-> "RuntimeError", msg |-> "MCP session initialization failed",
                           req |-> client.last.err.req, cause |-> client.last.err.msg])
    /\ ~client.initialized

\* The messages of the log that go to the server.
Sent(c) == SelectSeq(c.log, LAMBDA m : ~IsSleep(m))

\* C18: once the session holds a token it holds one for ever, and every
\* request and notification sent from then on carries the token held when
\* it is sent; so no message without session header follows one with it.
C18_TokenKeptAndSent ==
  /\ [](LET sent == Sent(client)
        IN  /\ \A i \in 1..Len(sent) : \A j \in i..Len(sent) :
                 sent[i].hdr # None => sent[j].hdr # None
            /\ (\E i \in 1..Len(sent) : sent[i].hdr # None) => TokenTruthy(client.session_id)
            /\ client.session_id # "")
  /\ [][TokenTruthy(client.session_id) =>
          /\ TokenTruthy(client'.session_id)
          /\ Len(Sent(client')) > Len(Sent(client)) =>
               Sent(client')[Len(Sent(client'))].hdr = client.session_id]_vars

\* The initialize request went out without header, its response brought a
\* token, and the notification and a request two responses later carried it.
C18_Witness ==
  LET sent == Sent(client)
  IN  /\ Len(sent) >= 4
      /\ sent[1].hdr = None
      /\ IsNotification(sent[2]) /\ sent[2].hdr = "T1"
      /\ IsRequest(sent[4]) /\ sent[4].hdr = "T1"

\* C20 as claimed: a timeout of an attempt of call_tool or get_resource is
\* retried like another failure: it reaches the caller only from the last
\* of the retry_attempts attempts.
C20_ClaimedTimeoutRetried ==
  (RetryOpEnded(client) /\ client.ret.kind = "raise" /\ client.ret.err.exc = "TimeoutError")
    => Attempts(client) = client.config.retry_attempts


(***************************************************************************)
(* More claims about MCPAgent (SpecAgent).                                 *)
(***************************************************************************)
\* call_server_tool or get_server_resource has returned or raised.
CallEnded == agent.pc = "done" /\ agent.call.state = "settled"

\* C19 as claimed: when call_server_tool or get_server_resource returns or
\* raises, the HTTP session its client opened is closed, on every path: the
\* operation succeeded, the operation failed, the handshake of __aenter__
\* failed.
C19_ClaimedSessionClosed ==
  CallEnded => agent.call.session # "open"


(***************************************************************************)
(* Claims about the concurrency of health_check_all and about direct calls *)
(* (SpecAgent).                                                            *)
(***************************************************************************)
\* C21: health_check_all starts the probes of all enabled servers together,
\* so that none waits for another to finish: while it waits, every enabled
\* server has a probe that runs or has settled; and it does not return
\* while a probe runs: once it has returned every enabled server's probe
\* has settled, by a value or by an exception.
C21_ProbesConcurrentAndAwaited ==
  /\ agent.pc = "probing" =>
       \A s \in EnabledNames : probes[s].state \in {"running", "settled"}
  /\ agent.pc # "probing" => \A s \in DOMAIN probes : probes[s].state # "running"
  /\ (agent.task \in {"check_all", "health", "gather"} /\ agent.pc \in {"done", "fetch"}) =>
       \A s \in EnabledNames : ProbeRaised(s) \/ ProbeReturned(s)

\* Three probes are in flight at once: C's has settled while A's waits for
\* the response of its health tool and B's is still in its handshake.
C21_Witness ==
  /\ agent.pc = "probing"
  /\ ProbeAt("A", "request")
  /\ ProbeAt("B", "notify")
  /\ probes["C"].state = "settled"


\* C22 as claimed: call_server_tool or get_server_resource on a server id
\* that is not registered, or on a disabled server, raises the configuration
\* error (ValueError) to its caller whatever the remote server does, and no
\* attempt is repeated.
C22_ClaimedConfigurationError ==
  (CallEnded /\ agent.server_id \in DisabledNames \cup {"Z"}) =>
    /\ agent.call.result.kind = "raise"
    /\ agent.call.result.err.exc = "ValueError"
    /\ \A k \in 1..Len(agent.call.log) :
         /\ ~IsSleep(agent.call.log[k])
         /\ agent.call.log[k].method \notin {"tools/call", "resources/read"}


\* C23 as claimed: the status of the /health endpoint is "healthy" or
\* "degraded"; it is "healthy" only if there is an enabled server and the
\* probe of every enabled server returned healthy; an enabled server whose
\* probe raised makes it "degraded".
C23_ClaimedHealthStatus ==
  (agent.task = "health" /\ agent.pc = "done") =>
    /\ agent.ret.kind = "return"
    /\ agent.ret.value.status \in {"healthy", "degraded"}
    /\ agent.ret.value.status = "healthy" =>
         /\ EnabledNames # {}
         /\ \A s \in EnabledNames : ProbeReturned(s) /\ probes[s].result.value.b
    /\ (\E s \in EnabledNames : ProbeRaised(s)) => agent.ret.value.status = "degraded"


(***************************************************************************)
(* More claims about generate_response (SpecAgent).                        *)
(***************************************************************************)
\* The first call of _generate_ai_response raised.
FirstGenerationRaised ==
  agent.failure.kind = "raise" /\ agent.failure.err.server = None

\* No probe and no direct call has been started.
NothingSent ==
  /\ \A s \in DOMAIN probes : probes[s].state = "none"
  /\ agent.call.state = "none"

C25_ClaimedNothingSentEmptyData ==
  (agent.task = "answer" /\ ~agent.include_mcp_data) =>
    /\ NothingSent
    /\ agent.generations = 1
    /\ (agent.pc = "done" /\ agent.ret.kind = "return") =>
         /\ agent.ret.value.sources = <<>>
         /\ DOMAIN agent.ret.value.mcp_data = {}

\* C25, amended: with include_mcp_data false nothing is sent to any server
\* and the text is generated once; when that generation returns, the
\* response has the text, no source and no data; when it raises
\* RuntimeError or ValueError, the response has no source and its data
\* holds the error.
C25_NothingSentWhenNotIncluded ==
  (agent.task = "answer" /\ ~agent.include_mcp_data) =>
    /\ NothingSent
    /\ agent.generations = 1
    /\ agent.pc = "done"
    /\ agent.failure.kind = "none" =>
         agent.ret = Return([response |-> <<"text">>, sources |-> <<>>, mcp_data |-> <<>>])
    /\ (agent.failure.kind = "raise" /\ agent.failure.err.exc \in {"RuntimeError", "ValueError"}) =>
         /\ agent.ret.kind = "return"
         /\ agent.ret.value.sources = <<>>
         /\ agent.ret.value.mcp_data = [error |-> agent.failure.err.msg]

\* generate_response has returned the text, without MCP data, over a
\* registry with two enabled servers.
C25_Witness ==
  /\ agent.task = "answer" /\ ~agent.include_mcp_data
  /\ agent.pc = "done" /\ agent.failure.kind = "none"
  /\ {"A", "B"} \subseteq EnabledNames


Visited ==
  {i \in Enabled(servers) :
     HealthGet(agent.health_status, servers[i].name)
       /\ Len(servers[i].tools) + Len(servers[i].resources) > 0}

C29_HandshakeOrder ==
  /\ [](/\ Len(client.log) > 0 =>
             (IsRequest(client.log[1]) /\ client.log[1].method = "initialize")
        /\ client.pc = "notify" => (client.last.kind = "return" /\ ~client.initialized)
        /\ client.initialized => \E i \in 1..Len(client.log) : IsNotification(client.log[i]))
  /\ [][/\ (client.pc = "initialize" /\ client'.pc = "notify") =>
             \A o \in RequestOutcomes(SessionResults) :
               (client' = initialize_request(client, o) /\ TokenTruthy(o.header))
                 => client'.session_id = o.header
        /\ client.pc = "notify" =>
             LET n == client'.log[Len(client'.log)]
             IN  /\ Len(client'.log) = Len(client.log) + 1
                 /\ IsNotification(n)
                 /\ n.hdr = IF TokenTruthy(client.session_id) THEN client.session_id ELSE None
        /\ (~client.initialized /\ client'.initialized) => client.pc = "notify"]_vars

\* A handshake has completed in __aenter__: the initialize request went out
\* first, its response brought the token T1, the notification carried it,
\* and initialized is set.
C29_Witness ==
  /\ client.pc = "idle" /\ client.op = "aenter" /\ client.initialized
  /\ Len(client.log) = 2
  /\ IsRequest(client.log[1]) /\ client.log[1].hdr = None
  /\ IsNotification(client.log[2]) /\ client.log[2].hdr = "T1"


(***************************************************************************)
(* More claims about _parse_sse_response (SpecSse).                        *)
(***************************************************************************)
\* The body was made from one payload: cut over two data lines, or padded.
OnePayload == "payload" \in DOMAIN client.made

\* C27 as claimed: a payload cut at any point over consecutive data lines of
\* one event, and a payload on one line with blank lines or events without
\* data around its event, decode to what the payload decodes to on a single
\* data line.
C27_ClaimedCutAndPaddingInsensitive ==
  (client.pc = "decoded" /\ OnePayload) =>
    client.ret = parse_sse_content(DATA_SPACE \o client.made.payload)

\* The body was made of two events.
TwoEvents == "first" \in DOMAIN client.made

\* The event of a body of two events that is the first with a payload, if
\* there is one.
Decisive ==
  IF client.made.first.data # <<>> THEN client.made.first ELSE client.made.second

\* C28: the first event with a non-empty data payload decides: the body
\* decodes to what that event decodes to alone, whatever the events after
\* it; and a body in which no event yields JSON (no data line, only empty
\* payloads, a payload that is not JSON) makes the decoder raise the
\* protocol error (RuntimeError), not return.
C28_FirstPayloadDecides ==
  /\ (client.pc = "decoded" /\ TwoEvents) =>
       /\ Decisive.data # <<>> => client.ret = parse_sse_content(Decisive.lines)
       /\ (Decisive.data = <<>> \/ json_loads(Decisive.data).kind = "raise") =>
            (client.ret.kind = "raise" /\ client.ret.err.exc = "RuntimeError")
  /\ (client.pc = "decoded" /\ client.made.events = 0) =>
       client.ret = Raise([exc |-> "RuntimeError",
                           msg |-> <<"No valid JSON data found in SSE response">>])

\* The first event has a payload that is not JSON and the second a JSON
\* object: the decoder raised for the first.
C28_Witness ==
  /\ client.pc = "decoded" /\ TwoEvents
  /\ client.made.first.data = <<"{">>
  /\ client.made.second.data = <<"{", "'result'", ":", "true", "}">>
  /\ client.ret.kind = "raise"


(***************************************************************************)
(* Claims about which servers are sent what (SpecAgent).                   *)
(***************************************************************************)
\* The requests of a method in a log.
RequestsOf(log, method) ==
  SelectSeq(log, LAMBDA m : IsRequest(m) /\ m.method = method)

\* What the probe of server s has sent so far.
ProbeLog(s) ==
  CASE probes[s].state = "running" -> probes[s].client.log
    [] probes[s].state = "settled" -> probes[s].log
    [] OTHER -> <<>>

C32_HandshakeRetriedByNextOperation ==
  [][/\ (client.pc = "initialize" /\ client'.last.kind = "raise") =>
          (~client'.initialized /\ client'.pc = "idle")
     /\ client.pc = "notify" =>
          (client'.initialized \/ (client'.pc = "idle" /\ client'.ret.kind = "raise"))
     /\ (client.pc = "idle" /\ ~client.initialized /\ client'.pc # "exited"
           /\ client'.op \in Ops /\ (client.config.enabled \/ client'.op \in ListOps)) =>
          (client'.pc = "initialize" /\ Len(client'.log) = Len(client.log))
     /\ (client.pc = "notify" /\ client'.initialized /\ client.op \in Ops) =>
          \/ client'.pc = "request"
          \/ /\ client.op \in RetryOps /\ client.config.retry_attempts <= 0
             /\ client'.pc = "idle" /\ client'.ret = Return(JNull)]_vars

\* call_tool met a failed handshake; list_tools, the next operation, sent
\* initialize again, was answered, and sent its own request.
C32_Witness ==
  LET r == Requests(client)
  IN  /\ client.pc = "idle" /\ client.op = "list_tools" /\ client.ret.kind = "return"
      /\ Len(r) = 3
      /\ r[1].method = "initialize" /\ r[2].method = "initialize"
      /\ r[3].method = "tools/list" /\ r[3].init
      /\ client.op_start = 1


(***************************************************************************)
(* Claims about the sessions of MCPAgent (SpecAgent).                      *)
(***************************************************************************)
\* What the client of the direct call in progress, or of the latest one, has
\* sent.
CallLog ==
  CASE agent.call.state = "running" -> agent.call.client.log
    [] agent.call.state = "settled" -> agent.call.log
    [] OTHER -> <<>>

\* The requests of a log carry the ids 1, 2, 3, ... in this order, and no
\* message of the log carries a token other than the one of server s.
OwnSession(log, s) ==
  /\ LET r == SelectSeq(log, IsRequest)
     IN  \A i \in 1..Len(r) : r[i].id = i
  /\ \A k \in 1..Len(log) : ~IsSleep(log[k]) => log[k].hdr \in {None, s}

C34_ClaimedNothingSentToDisabled ==
  \A s \in DisabledNames :
    /\ ProbeLog(s) = <<>>
    /\ agent.server_id = s => CallLog = <<>>


C36_ClaimedResultOrError ==
  (/\ client.pc = "idle" /\ client.op \in RetryOps /\ client.ret.kind # "none"
   /\ client.config.enabled /\ client.initialized) =>
    \/ client.ret.kind = "raise"
    \/ /\ Attempts(client) >= 1
       /\ AttemptSucceeded(client)
       /\ client.ret = Return(client.last.value.d["result"])


(***************************************************************************)
(* More claims about health_check_all (SpecAgent).                         *)
(***************************************************************************)
\* C37: a probe is one attempt.  What the probe of a server sends is, in
\* this order, one initialize request, one initialized notification when
\* that request was answered, and one tools/call when the handshake
\* succeeded; it never waits to try again; a probe that ended before its
\* tools/call ended by the exception of its handshake.
C37_ProbeIsOneAttempt ==
  \A s \in DOMAIN probes :
    LET log == ProbeLog(s)
    IN  /\ Len(log) <= 3
        /\ Len(log) >= 1 => (IsRequest(log[1]) /\ log[1].method = "initialize")
        /\ Len(log) >= 2 => IsNotification(log[2])
        /\ Len(log) = 3 => (IsRequest(log[3]) /\ log[3].method = "tools/call")
        /\ probes[s].state = "running" =>
             probes[s].client.pc \in {"initialize", "notify", "request"}
        /\ probes[s].state = "settled" =>
             /\ Len(log) >= 1
             /\ Len(log) < 3 => probes[s].result.kind = "raise"

\* health_check_all has returned: the tools/call of A failed and was not
\* repeated, the handshake of B failed and B was sent no tools/call.
C37_Witness ==
  /\ agent.task = "check_all" /\ agent.pc = "done"
  /\ Len(ProbeLog("A")) = 3 /\ probes["A"].result = Return(JBool(FALSE))
  /\ Len(ProbeLog("B")) = 1 /\ ProbeRaised("B")


(***************************************************************************)
(* The copy of MCPStreamingClient in src/backend/agent.py.  It differs     *)
(* from the one of src/agent/agent.py in its except clauses:               *)
(* _initialize_mcp_session, health_check and the retry loops of call_tool  *)
(* and get_resource catch Exception.  The steps below are the steps of the *)
(* copy on a client record.                                                *)
(***************************************************************************)
\* An exception e leaves _initialize_mcp_session of the copy, which wraps
\* every exception, and reaches the operation that called it; health_check
\* of the copy catches every exception.
backend_InitializeRaised(c, e) ==
  IF c.op = "health_check"
  THEN Finish(c, Return(JBool(FALSE)))
  ELSE Finish(c, Raise([exc |-> "RuntimeError", msg |-> "MCP session initialization failed",
                        req |-> e.req, cause |-> e.msg]))

\* _initialize_mcp_session of the copy, step 1.
backend_initialize_request(c, o) ==
  LET s == send_mcp_request(c, "initialize", o)
  IN  IF s.res.kind = "return"
      THEN [s.c EXCEPT !.pc = "notify"]
      ELSE backend_InitializeRaised(s.c, s.res.err)

\* _initialize_mcp_session of the copy, step 2.
backend_initialize_notify(c, o) ==
  LET s == send_mcp_notification(c, "notifications/initialized", o)
  IN  IF s.res.kind = "return"
      THEN AfterInitialized([s.c EXCEPT !.initialized = TRUE])
      ELSE backend_InitializeRaised(s.c, s.res.err)

\* The body of one pass of the retry loop of the copy: except Exception.
backend_retry_attempt(c, res) ==
  LET e == IF res.kind = "return"
           THEN Err("RuntimeError", "No result in response", c.request_id)
           ELSE res.err
  IN  IF res.kind = "return" /\ "result" \in DOMAIN res.value.d
      THEN Finish(c, Return(res.value.d["result"]))
      ELSE IF c.attempt = c.config.retry_attempts - 1
      THEN Finish(c, Raise(e))
      ELSE [c EXCEPT !.pc = "sleep"]

\* health_check of the copy after its request: except Exception.
backend_health_result(c, res) ==
  IF res.kind = "return"
  THEN Finish(c, Return(JBool(HealthOfResponse(res.value))))
  ELSE Finish(c, Return(JBool(FALSE)))

\* The request of the operation in progress, in the copy.
backend_operation_request(c, o) ==
  LET s == send_mcp_request(c, MethodOf(c.op), o)
  IN  CASE c.op = "health_check" -> backend_health_result(s.c, s.res)
        [] c.op \in RetryOps -> backend_retry_attempt(s.c, s.res)
        [] OTHER -> operation_request(c, o)

\* Two clients have sent the same messages, are at the same place, and the
\* operation of both has ended or not, by the same result or by an error
\* in both.
SameOutcome(c, d) ==
  /\ c.log = d.log /\ c.pc = d.pc /\ c.initialized = d.initialized
  /\ c.session_id = d.session_id /\ c.request_id = d.request_id
  /\ c.ret.kind = d.ret.kind
  /\ c.ret.kind = "return" => c.ret = d.ret

\* C38 as claimed (Spec): the two copies of the client are equivalent: from
\* every state of a session, and for every response or failure of the
\* server, the step of the one and the step of the other send the same
\* messages and end the handshake or the operation with the same outcome.
C38_ClaimedCopiesEquivalent ==
  [][/\ client.pc = "initialize" =>
          \A o \in RequestOutcomes(SessionResults) :
            client' = initialize_request(client, o)
              => SameOutcome(client', backend_initialize_request(client, o))
     /\ client.pc = "notify" =>
          \A o \in NotificationOutcomes :
            client' = initialize_notify(client, o)
              => SameOutcome(client', backend_initialize_notify(client, o))
     /\ client.pc = "request" =>
          \A o \in RequestOutcomes(SessionResults) :
            client' = operation_request(client, o)
              => SameOutcome(client', backend_operation_request(client, o))]_vars


\* C39 as claimed (SpecRelevant): the query endpoint answers a query that
\* is empty after trimming, or longer than 1000 characters after trimming,
\* with status 400, and does not call generate_response.
C39_ClaimedRejectedWith400 ==
  (agent.pc = "responded"
     /\ LET n == query_len(query_strip(agent.query)) IN n = 0 \/ n > QueryLimit)
    => agent.response.status = 400 /\ ~agent.response.generated


\* What health_check_all reports for server s, read off the probe of s
\* alone: its value when it returned one, nothing when it raised.
ReportedOf(s) ==
  IF ProbeReturned(s) THEN <<probes[s].result.value.b>> ELSE <<>>

\* C40 (SpecAgentLive): health_check_all always terminates: when every
\* request of every probe is eventually answered, fails or times out, a
\* health_check_all that waits for its probes eventually returns; and a
\* probe that fails or is slow does not change what is reported for the
\* other servers: a step of one probe leaves the other probes as they are,
\* a settled probe stays as it settled while the others go on, and the map
\* returned holds for each server what its own probe returned, and no entry
\* for a server whose probe raised.
C40_CheckAllTerminatesIndependently ==
  /\ (agent.pc = "probing") ~> (agent.pc # "probing")
  /\ [][(agent.pc = "probing" /\ agent'.pc = "probing") =>
          /\ \A s, t \in DOMAIN probes :
               (probes'[s] # probes[s] /\ t # s) => probes'[t] = probes[t]
          /\ \A s \in DOMAIN probes :
               probes[s].state = "settled" => probes'[s] = probes[s]]_vars
  /\ []((agent.task \in {"check_all", "health"} /\ agent.pc = "done") =>
          /\ DOMAIN agent.health_status = {s \in DOMAIN probes : ProbeReturned(s)}
          /\ \A s \in DOMAIN agent.health_status :
               <<agent.health_status[s]>> = ReportedOf(s))

\* health_check_all has returned although the probe of A raised (its
\* handshake timed out), and reports B as its own probe found it.
C40_Witness ==
  /\ agent.task = "check_all" /\ agent.pc = "done"
  /\ ProbeRaised("A") /\ probes["A"].result.err.exc = "TimeoutError"
  /\ ProbeReturned("B")
  /\ "A" \notin DOMAIN agent.health_status
  /\ agent.health_status["B"] = TRUE

====
